---- MODULE Spec2Model ----
(***************************************************************************)
(* A model of the packing layer of with-cloud-blob (_crypto.py), of the    *)
(* commands that drive it (_cli.py: xmodify, modify, read) and of the file *)
(* and S3 storage backends and the file lock backend they use.             *)
(*                                                                         *)
(* Representation.  A byte string or a path string is the sequence of its  *)
(* "/"-separated pieces; the empty string is the empty sequence.  A tree   *)
(* (a source directory) is a function from the paths of its files and      *)
(* symbolic links to what is there.  Python dictionaries are functions;    *)
(* where the code depends on the insertion order of a dictionary the       *)
(* order is kept beside it as a sequence of its keys.  Ids (body_id,       *)
(* partition_id) count from 0 as in the code, so list x at id i is x[i+1]. *)
(***************************************************************************)
EXTENDS Integers, Sequences, FiniteSets, TLC

VARIABLES
    tree,         \* the source directory handed to collect
    phase,        \* SpecPart: "edit" while the directory is written, "packed", "written"
    collection,   \* what collect_files returned (before partition_files adds bodies)
    partitioned,  \* what partition_files returned
    cb,           \* the CryptoBlob object after the last collect
    error,        \* "" or the kind of the Error the last pack raised
    stored,       \* Spec: the stored blob (NoBlob when the object does not exist)
    rnd,          \* Spec: the number of collects that drew random keys so far
    issued,       \* Spec: history, the TenantKeys minted for the stored blob, in order
    last,         \* Spec: history, what the last xmodify run was given and did
    dest,         \* the directory the last writeout wrote, and how the writeout ended
    cb2,          \* SpecBlob: the CryptoBlob that load_from_blob filled
    storage,      \* SpecStore: the storage locator of the run (backend and options)
    object,       \* SpecStore: the object at the locator, as a download sees it
    pending,      \* SpecStore: the postponed() threads that have not acted yet
    dynamo,       \* SpecStore: the item of the locator in the DynamoDB table
    clock,        \* SpecStore: time.time(), in ticks
    run,          \* SpecStore: the modify call in progress and where it is
    modified,     \* SpecStore: history, what the last modify call read and did
    latest,       \* SpecStore: history, the object as the last modify call left it
    procs,        \* SpecLock: the concurrent modify invocations and where each is
    reading,      \* SpecRead: the read invocation, what it was given and how it ended
    options,      \* SpecOpts: the Options object of a backend call, and how the call ended
    call,         \* SpecLoop: one modify_blob_with_locks invocation and where it is
    elsewhere     \* SpecLoop: the locks that other processes hold

store_vars == <<storage, object, pending, dynamo, clock, run, modified, latest, procs>>

loop_vars == <<call, elsewhere>>

vars == <<tree, phase, collection, partitioned, cb, error, stored, rnd, issued, last, dest,
          cb2, store_vars, reading, options, loop_vars>>

\* the variables of the packing layer, and those outside it
packing == <<tree, phase, collection, partitioned, cb, error, stored, rnd, issued, last, dest>>

others == <<cb2, store_vars, reading, options, loop_vars>>

(***************************************************************************)
(* Bounds of the model.                                                    *)
(***************************************************************************)
MaxFiles == 3     \* files and links in a directory of SpecPart
MaxPacks == 3     \* collects in a run of Spec

(***************************************************************************)
(* FileMetadataFlag                                                        *)
(***************************************************************************)
SYMLINK == 1
SYMLINK_ABS == 2

HasFlag(flags, bit) == (flags \div bit) % 2 = 1

Min(a, b) == IF a < b THEN a ELSE b

Max(a, b) == IF a > b THEN a ELSE b

(***************************************************************************)
(* str.split("/") and "/".join: "" is <<>>, and "".split("/") is [""].     *)
(***************************************************************************)
split(s) == IF s = <<>> THEN <<"">> ELSE s

join(parts) == IF parts = <<"">> THEN <<>> ELSE parts

(***************************************************************************)
(* Python's order on path strings, on the names the model uses ("/" sorts  *)
(* below every character of these names, so the order is piecewise).       *)
(***************************************************************************)
NameOrder ==
    << ".keep-tenant-key-one", ".keep-tenant-key-two", "d", "link", "master",
       "one", "t", "tenants", "top", "two", "x", "y" >>

Rank(n) == CHOOSE i \in 1..Len(NameOrder) : NameOrder[i] = n

RECURSIVE PathLess(_, _)
PathLess(p, q) ==
    IF p = <<>> THEN q # <<>>
    ELSE IF q = <<>> THEN FALSE
    ELSE IF Head(p) = Head(q) THEN PathLess(Tail(p), Tail(q))
    ELSE Rank(Head(p)) < Rank(Head(q))

RECURSIVE sorted(_)
sorted(S) ==
    IF S = {} THEN <<>>
    ELSE LET m == CHOOSE p \in S : \A q \in S \ {p} : PathLess(p, q)
         IN  <<m>> \o sorted(S \ {m})

(***************************************************************************)
(* FilesCollection.add_body: the id of the body, appended if it is new.    *)
(***************************************************************************)
\* add_body without the lookup in _bodies_dict
add_body_always_appends(bodies, body) ==
    [id |-> Len(bodies), bodies |-> Append(bodies, body)]

add_body(bodies, body) ==
    IF \E i \in 1..Len(bodies) : bodies[i] = body
    THEN [id |-> (CHOOSE i \in 1..Len(bodies) : bodies[i] = body) - 1,
          bodies |-> bodies]
    ELSE [id |-> Len(bodies), bodies |-> Append(bodies, body)]

(***************************************************************************)
(* collect_files.  An entry of the tree is [kind, data, mtime_ns]:         *)
(*   "file"        data is the contents;                                   *)
(*   "symlink"     data is the target, which is relative;                  *)
(*   "symlink_abs" the target is absolute and resolves inside src: data is *)
(*                 the resolved target relative to src;                    *)
(*   "symlink_out" the target is absolute and resolves outside src.        *)
(* order is the order in which rglob yields the entries (the directory     *)
(* order of the file system).                                              *)
(***************************************************************************)
EmptyCollection == [error |-> "", bodies |-> <<>>, files |-> <<>>]

entry_flags(e) ==
    IF e.kind = "symlink" THEN SYMLINK
    ELSE IF e.kind = "symlink_abs" THEN SYMLINK + SYMLINK_ABS
    ELSE 0

RECURSIVE collect_walk(_, _, _)
collect_walk(t, order, acc) ==
    IF order = <<>> \/ acc.error # "" THEN acc
    ELSE LET i == Head(order)
             e == t[i]
             r == add_body(acc.bodies, e.data)
         IN  IF e.kind = "symlink_out"
             THEN [acc EXCEPT !.error = "OUT_OF_TREE"]
             ELSE collect_walk(t, Tail(order),
                    [error |-> "",
                     bodies |-> r.bodies,
                     files |-> (i :> [metadata |-> [mtime_ns |-> e.mtime_ns,
                                                   flags |-> entry_flags(e)],
                                      body_id |-> r.id]) @@ acc.files])

collect_files(t, order) == collect_walk(t, order, EmptyCollection)

(***************************************************************************)
(* strip_prefix(fname, ["master/", "tenants/"]) and the split of the tail: *)
(* the principal (key) and the path below the principal's root.            *)
(***************************************************************************)
strip_prefix(fname) ==
    IF Len(fname) >= 2 /\ fname[1] = "master" THEN [prefix |-> 0, tail |-> Tail(fname)]
    ELSE IF Len(fname) >= 2 /\ fname[1] = "tenants" THEN [prefix |-> 1, tail |-> Tail(fname)]
    ELSE [prefix |-> -1, tail |-> fname]

classify(fname) ==
    LET sp == strip_prefix(fname)
    IN  IF sp.prefix = 0 THEN [ok |-> TRUE, key |-> "", name |-> sp.tail]
        ELSE IF sp.prefix = 1 /\ Len(sp.tail) >= 2
             THEN [ok |-> TRUE, key |-> Head(sp.tail), name |-> Tail(sp.tail)]
        ELSE [ok |-> FALSE, key |-> "", name |-> fname]

required_prefix(key) == IF key # "" THEN <<"tenants", key>> ELSE <<"master">>

(***************************************************************************)
(* validate_symlink, relative target: TRUE iff the walk raises.            *)
(***************************************************************************)
RECURSIVE walk_raises(_, _)
walk_raises(cur_dir, parts) ==
    IF parts = <<>> THEN FALSE
    ELSE LET part == Head(parts)
         IN  IF part = "." THEN walk_raises(cur_dir, Tail(parts))
             ELSE IF part = ".."
                  THEN IF cur_dir # <<>>
                       THEN walk_raises(SubSeq(cur_dir, 1, Len(cur_dir) - 1), Tail(parts))
                       ELSE TRUE
             ELSE walk_raises(Append(cur_dir, part), Tail(parts))

\* the validation that strips the prefix of an absolute target without comparing it
strips_any_prefix(bodies, key, fname, flags, body_id) ==
    IF HasFlag(flags, SYMLINK_ABS)
    THEN [error |-> "",
          body_id |-> add_body(bodies,
                               join(SubSeq(split(bodies[body_id + 1]),
                                           Len(required_prefix(key)) + 1,
                                           Len(split(bodies[body_id + 1]))))).id,
          bodies |-> add_body(bodies,
                              join(SubSeq(split(bodies[body_id + 1]),
                                          Len(required_prefix(key)) + 1,
                                          Len(split(bodies[body_id + 1]))))).bodies]
    ELSE IF walk_raises(fname, split(bodies[body_id + 1]))
         THEN [error |-> "OUT_OF_TREE", body_id |-> body_id, bodies |-> bodies]
         ELSE [error |-> "", body_id |-> body_id, bodies |-> bodies]

validate_symlink(bodies, key, fname, flags, body_id) ==
    LET target_parts == split(bodies[body_id + 1])
        rp == required_prefix(key)
    IN  IF HasFlag(flags, SYMLINK_ABS)
        THEN IF SubSeq(target_parts, 1, Min(Len(rp), Len(target_parts))) # rp
             THEN [error |-> "OUT_OF_TREE", body_id |-> body_id, bodies |-> bodies]
             ELSE LET r == add_body(bodies,
                                    join(SubSeq(target_parts, Len(rp) + 1, Len(target_parts))))
                  IN  [error |-> "", body_id |-> r.id, bodies |-> r.bodies]
        ELSE IF walk_raises(fname, target_parts)
             THEN [error |-> "OUT_OF_TREE", body_id |-> body_id, bodies |-> bodies]
             ELSE [error |-> "", body_id |-> body_id, bodies |-> bodies]

(***************************************************************************)
(* partition_files, first loop: the files in sorted order, each classified *)
(* and, if a link, validated; the principals (keys) of every body.         *)
(***************************************************************************)
add_key(keys_by_body_id, body_id, key) ==
    IF body_id \in DOMAIN keys_by_body_id
    THEN [keys_by_body_id EXCEPT ![body_id] = @ \cup {key}]
    ELSE (body_id :> {key}) @@ keys_by_body_id

RECURSIVE classify_walk(_, _, _)
classify_walk(cfiles, names, acc) ==
    IF names = <<>> \/ acc.error # "" THEN acc
    ELSE LET fname == Head(names)
             f == cfiles[fname]
             c == classify(fname)
             v == IF HasFlag(f.metadata.flags, SYMLINK)
                  THEN validate_symlink(acc.bodies, c.key, c.name, f.metadata.flags, f.body_id)
                  ELSE [error |-> "", body_id |-> f.body_id, bodies |-> acc.bodies]
         IN  IF ~c.ok THEN [acc EXCEPT !.error = "BAD_LAYOUT"]
             ELSE IF v.error # "" THEN [acc EXCEPT !.error = v.error]
             ELSE classify_walk(cfiles, Tail(names),
                    [error |-> "",
                     bodies |-> v.bodies,
                     keys_by_body_id |-> add_key(acc.keys_by_body_id, v.body_id, c.key),
                     files |-> Append(acc.files,
                                      [key |-> c.key, name |-> c.name, f |-> f,
                                       body_id |-> v.body_id])])

(***************************************************************************)
(* partition_files, second loop: the bodies in ascending body_id, each     *)
(* appended to the partition of its set of principals.                     *)
(***************************************************************************)
RECURSIVE ascending(_)
ascending(S) ==
    IF S = {} THEN <<>>
    ELSE LET m == CHOOSE x \in S : \A y \in S : x <= y
         IN  <<m>> \o ascending(S \ {m})

\* setdefault that never finds the key set
partition_always_new(keyset_to_partition, keyset, n_partitions) == n_partitions

\* keyset_to_partition.setdefault(frozenset(keyset), len(keyset_to_partition))
partition_of(keyset_to_partition, keyset, n_partitions) ==
    IF keyset \in DOMAIN keyset_to_partition
    THEN keyset_to_partition[keyset]
    ELSE Cardinality(DOMAIN keyset_to_partition)

\* used_partitions updated for every key seen so far, not for the keys of the set
used_by_everyone(used_partitions, keyset, partition_id) ==
    [k \in DOMAIN used_partitions \cup keyset |->
        (IF k \in DOMAIN used_partitions THEN used_partitions[k] ELSE {})
        \cup {partition_id}]

\* for key in keyset: result.used_partitions.setdefault(key, set()).add(partition_id)
add_used(used_partitions, keyset, partition_id) ==
    [k \in DOMAIN used_partitions \cup keyset |->
        (IF k \in DOMAIN used_partitions THEN used_partitions[k] ELSE {})
        \cup (IF k \in keyset THEN {partition_id} ELSE {})]

RECURSIVE assign_walk(_, _, _, _)
assign_walk(bodies, keys_by_body_id, body_ids, acc) ==
    IF body_ids = <<>> THEN acc
    ELSE LET body_id == Head(body_ids)
             keyset == keys_by_body_id[body_id]
             partition_id == partition_of(acc.keyset_to_partition, keyset, Len(acc.partitions))
             parts1 == IF partition_id = Len(acc.partitions)
                       THEN Append(acc.partitions, <<>>)
                       ELSE acc.partitions
         IN  assign_walk(bodies, keys_by_body_id, Tail(body_ids),
                [keyset_to_partition |->
                     IF keyset \in DOMAIN acc.keyset_to_partition
                     THEN acc.keyset_to_partition
                     ELSE (keyset :> partition_id) @@ acc.keyset_to_partition,
                 partitions |->
                     [parts1 EXCEPT ![partition_id + 1] = Append(@, bodies[body_id + 1])],
                 where |->
                     (body_id :> [partition_id |-> partition_id,
                                  body_id |-> Len(parts1[partition_id + 1])]) @@ acc.where,
                 used_partitions |-> add_used(acc.used_partitions, keyset, partition_id)])

(***************************************************************************)
(* partition_files, third loop, and the whole function.  files_keys is the *)
(* insertion order of result.files (the principals in the order in which   *)
(* the sorted files first name them).                                      *)
(***************************************************************************)
RECURSIVE first_keys(_, _)
first_keys(files, seen) ==
    IF files = <<>> THEN seen
    ELSE first_keys(Tail(files),
                    IF \E i \in 1..Len(seen) : seen[i] = Head(files).key
                    THEN seen
                    ELSE Append(seen, Head(files).key))

\* an item that keeps the body_id of the collection
item_keeps_collection_body_id(i, where) ==
    [metadata |-> i.f.metadata,
     partition_id |-> where[i.body_id].partition_id,
     body_id |-> i.body_id]

\* FilesPartitionsItem(metadata=i.f.metadata, partition_id=..., body_id=...)
partitions_item(i, where) ==
    [metadata |-> i.f.metadata,
     partition_id |-> where[i.body_id].partition_id,
     body_id |-> where[i.body_id].body_id]

files_by_key(files, where) ==
    LET idx == 1..Len(files)
        keys == {files[i].key : i \in idx}
    IN  [k \in keys |->
            [n \in {files[i].name : i \in {j \in idx : files[j].key = k}} |->
                partitions_item(files[CHOOSE i \in idx : files[i].key = k /\ files[i].name = n],
                                where)]]

FailedPartitions(e) ==
    [error |-> e, partitions |-> <<>>, used_partitions |-> <<>>,
     files |-> <<>>, files_keys |-> <<>>]

\* first and second are what the first and the second loop leave
partition_result(first, second) ==
    [error |-> "",
     partitions |-> second.partitions,
     used_partitions |-> second.used_partitions,
     files |-> files_by_key(first.files, second.where),
     files_keys |-> first_keys(first.files, <<>>)]

partition_bodies(first) ==
    IF first.error # "" THEN FailedPartitions(first.error)
    ELSE partition_result(first,
            assign_walk(first.bodies, first.keys_by_body_id,
                        ascending(DOMAIN first.keys_by_body_id),
                        [keyset_to_partition |-> <<>>, partitions |-> <<>>,
                         where |-> <<>>, used_partitions |-> <<>>]))

partition_files(c) ==
    partition_bodies(classify_walk(c.files, sorted(DOMAIN c.files),
                                   [error |-> "", bodies |-> c.bodies,
                                    keys_by_body_id |-> <<>>, files |-> <<>>]))

(***************************************************************************)
(* Keys and boxes.  A random draw is named by the collect that draws it    *)
(* (seed) and its place in that collect, so that two draws never agree.    *)
(* A box opens with the key it was sealed with and with no other.          *)
(***************************************************************************)
new_key(seed, i) == <<"key", seed, i>>

asymm_new_keypair(seed, i) ==
    [writer_key |-> <<"writer", seed, i>>, reader_key |-> <<"reader", seed, i>>]

encrypt(blob, key) == [box |-> "secret", key |-> key, plain |-> blob]

decrypt(blob, key) ==
    IF blob.box = "secret" /\ blob.key = key
    THEN [ok |-> TRUE, plain |-> blob.plain]
    ELSE [ok |-> FALSE, plain |-> <<>>]

asymm_encrypt(blob, writer_key) ==
    [box |-> "sealed", pair |-> <<writer_key[2], writer_key[3]>>, plain |-> blob]

\* a sealed box that opens with every reader key
asymm_opens_for_all(blob, reader_key) ==
    [ok |-> blob.box = "sealed", plain |-> blob.plain]

asymm_decrypt(blob, reader_key) ==
    IF blob.box = "sealed" /\ reader_key[1] = "reader"
       /\ blob.pair = <<reader_key[2], reader_key[3]>>
    THEN [ok |-> TRUE, plain |-> blob.plain]
    ELSE [ok |-> FALSE, plain |-> <<>>]

compressed_avro_dump(data, schema_name, schema_version) ==
    [schema |-> schema_name, version |-> schema_version, data |-> data]

compressed_avro_load(blob, schema_name, schema_version) == blob.data

(***************************************************************************)
(* str(k) and int(s) of the decimal keys of the blob's "tenants" map.      *)
(***************************************************************************)
MaxDecimal == 20    \* int() is searched for among 0..MaxDecimal

Digits == <<"0", "1", "2", "3", "4", "5", "6", "7", "8", "9">>

RECURSIVE str(_)
str(n) == IF n < 10 THEN Digits[n + 1] ELSE str(n \div 10) \o Digits[(n % 10) + 1]

int(s) == CHOOSE n \in 0..MaxDecimal : str(n) = s

(***************************************************************************)
(* CryptoBlob: __init__, dump_to_blob, load_from_blob.                     *)
(***************************************************************************)
NoBlob == [header |-> -1]

NewCryptoBlob ==
    [version |-> -1, max_id |-> 0, xpartitions |-> <<>>, xmaster |-> <<>>,
     xtenants |-> <<>>]

dump_to_blob(self) ==
    [header |-> self.version,
     max_id |-> self.max_id,
     master |-> self.xmaster,
     partitions |-> self.xpartitions,
     tenants |-> [s \in {str(k) : k \in DOMAIN self.xtenants} |->
                     self.xtenants[CHOOSE k \in DOMAIN self.xtenants : str(k) = s]]]

\* load_from_blob without the assignment of self.max_id
load_forgets_max_id(blob) ==
    [version |-> blob.header,
     max_id |-> 0,
     xpartitions |-> blob.partitions,
     xmaster |-> blob.master,
     xtenants |-> [k \in {int(s) : s \in DOMAIN blob.tenants} |->
                      blob.tenants[CHOOSE s \in DOMAIN blob.tenants : int(s) = k]]]

\* load_from_blob that takes the partitions last to first
load_reverses_partitions(blob) ==
    [version |-> blob.header,
     max_id |-> blob.max_id,
     xpartitions |-> [i \in 1..Len(blob.partitions) |->
                         blob.partitions[Len(blob.partitions) + 1 - i]],
     xmaster |-> blob.master,
     xtenants |-> [k \in {int(s) : s \in DOMAIN blob.tenants} |->
                      blob.tenants[CHOOSE s \in DOMAIN blob.tenants : int(s) = k]]]

load_from_blob(blob) ==
    [version |-> blob.header,
     max_id |-> blob.max_id,
     xpartitions |-> blob.partitions,
     xmaster |-> blob.master,
     xtenants |-> [k \in {int(s) : s \in DOMAIN blob.tenants} |->
                      blob.tenants[CHOOSE s \in DOMAIN blob.tenants : int(s) = k]]]

(***************************************************************************)
(* CryptoBlob.collect.                                                     *)
(***************************************************************************)
\* {i.tenant_name: i for i in existing_tenants_keys}: the last of a name wins
tenants_keys_by_names(existing) ==
    [n \in {existing[i].tenant_name : i \in 1..Len(existing)} |->
        existing[CHOOSE i \in 1..Len(existing) :
                    /\ existing[i].tenant_name = n
                    /\ \A j \in (i + 1)..Len(existing) : existing[j].tenant_name # n]]

\* a key_id counted from the tenants known, not from max_id
mint_reuses_count(max_id, by_names, name, seed) ==
    LET kp == asymm_new_keypair(seed, Cardinality(DOMAIN by_names) + 1)
    IN  [tenant_name |-> name, key_id |-> Cardinality(DOMAIN by_names) + 1,
         writer_key |-> kp.writer_key, reader_key |-> kp.reader_key]

\* the TenantKeys of a tenant seen for the first time; max_id is already incremented
mint(max_id, by_names, name, seed) ==
    LET kp == asymm_new_keypair(seed, max_id)
    IN  [tenant_name |-> name, key_id |-> max_id,
         writer_key |-> kp.writer_key, reader_key |-> kp.reader_key]

\* the loop without "if i not in tenants_keys_by_names"
issue_ignores_existing(acc, name, seed) ==
    [max_id |-> acc.max_id + 1,
     by_names |-> (name :> mint(acc.max_id + 1, acc.by_names, name, seed)) @@ acc.by_names]

\* one turn of the loop "for i in partitioned.files"
issue(acc, name, seed) ==
    IF name = "" \/ name \in DOMAIN acc.by_names THEN acc
    ELSE [max_id |-> acc.max_id + 1,
          by_names |-> (name :> mint(acc.max_id + 1, acc.by_names, name, seed))
                       @@ acc.by_names]

RECURSIVE issue_walk(_, _, _)
issue_walk(keys, acc, seed) ==
    IF keys = <<>> THEN acc
    ELSE issue_walk(Tail(keys), issue(acc, Head(keys), seed), seed)

to_data(v2) ==
    [mtime_ns |-> v2.metadata.mtime_ns, flags |-> v2.metadata.flags,
     partition_id |-> v2.partition_id, body_id |-> v2.body_id]

files_data(files) ==
    [k \in DOMAIN files |-> [k2 \in DOMAIN files[k] |-> to_data(files[k][k2])]]

\* a tenant manifest with the key of every partition
tenant_gets_every_key(partition_keys, used) == partition_keys

\* partition_key if partition_i in used_partitions[tenant_name] else b""
tenant_partition_keys(partition_keys, used) ==
    [i \in 1..Len(partition_keys) |->
        IF (i - 1) \in used THEN partition_keys[i] ELSE <<>>]

tenant_names(files_keys) == SelectSeq(files_keys, LAMBDA k : k # "")

seal_tenants(p, by_names, partition_keys, version) ==
    LET names == tenant_names(p.files_keys)
        fd == files_data(p.files)
    IN  [id \in {by_names[names[i]].key_id : i \in 1..Len(names)} |->
            LET n == names[CHOOSE i \in 1..Len(names) :
                            /\ by_names[names[i]].key_id = id
                            /\ \A j \in (i + 1)..Len(names) :
                                   by_names[names[j]].key_id # id]
            IN  asymm_encrypt(
                    compressed_avro_dump(
                        [partition_keys |->
                             tenant_partition_keys(partition_keys, p.used_partitions[n]),
                         files |-> fd[n]],
                        "tenant", version),
                    by_names[n].writer_key)]

\* a master manifest that records every key it was given, files or no files
records_every_known_key(names, by_names) ==
    [i \in 1..Len(SelectSeq(NameOrder, LAMBDA n : n \in DOMAIN by_names)) |->
        by_names[SelectSeq(NameOrder, LAMBDA n : n \in DOMAIN by_names)[i]]]

\* "tenants_keys": [tenants_keys_by_names[i].to_data() for i in partitioned.files if i]
master_tenants_keys(names, by_names) == [i \in 1..Len(names) |-> by_names[names[i]]]

\* collect from the assignment of xpartitions on: is is what the issue loop leaves
collect_seal(c, p, partition_keys, is, master_key) ==
    [error |-> "", collection |-> c, partitioned |-> p,
     cb |-> [version |-> 1,
             max_id |-> is.max_id,
             xpartitions |->
                 [i \in 1..Len(p.partitions) |->
                     encrypt(compressed_avro_dump(p.partitions[i], "partition", 1),
                             partition_keys[i])],
             xmaster |->
                 encrypt(compressed_avro_dump(
                             [partition_keys |-> partition_keys,
                              files |-> files_data(p.files),
                              tenants_keys |->
                                  master_tenants_keys(tenant_names(p.files_keys),
                                                      is.by_names)],
                             "master", 1),
                         master_key),
             xtenants |-> seal_tenants(p, is.by_names, partition_keys, 1)]]

\* collect from partition_files on: an Error leaves self with version 1 and no more
collect_partitioned(self, c, p, master_key, existing_tenants_keys, seed) ==
    IF p.error # ""
    THEN [error |-> p.error, collection |-> c, partitioned |-> p,
          cb |-> [self EXCEPT !.version = 1]]
    ELSE collect_seal(c, p,
                      [i \in 1..Len(p.partitions) |-> new_key(seed, i - 1)],
                      issue_walk(p.files_keys,
                                 [max_id |-> self.max_id,
                                  by_names |-> tenants_keys_by_names(existing_tenants_keys)],
                                 seed),
                      master_key)

collect_collected(self, c, master_key, existing_tenants_keys, seed) ==
    collect_partitioned(self, c,
                        IF c.error # "" THEN FailedPartitions(c.error) ELSE partition_files(c),
                        master_key, existing_tenants_keys, seed)

collect(self, src, order, master_key, existing_tenants_keys, seed) ==
    collect_collected(self, collect_files(src, order), master_key,
                      existing_tenants_keys, seed)

unseal_master(self, master_key) ==
    LET d == decrypt(self.xmaster, master_key)
    IN  IF d.ok THEN [ok |-> TRUE, data |-> compressed_avro_load(d.plain, "master", self.version)]
        ELSE [ok |-> FALSE, data |-> <<>>]

get_tenants_keys(master_data) == master_data.tenants_keys

\* writeout_tenant up to the call of writeout: the tenant manifest and the
\* partitions it opens ([] for a hole)
open_tenant(self, key_id, tenant_key) ==
    LET d == IF key_id \in DOMAIN self.xtenants
             THEN asymm_decrypt(self.xtenants[key_id], tenant_key)
             ELSE [ok |-> FALSE, plain |-> <<>>]
        tenant_data == compressed_avro_load(d.plain, "tenant", self.version)
        n == Min(Len(tenant_data.partition_keys), Len(self.xpartitions))
    IN  IF ~d.ok THEN [ok |-> FALSE, data |-> <<>>, partitions |-> <<>>]
        ELSE [ok |-> TRUE,
              data |-> tenant_data,
              partitions |->
                  [i \in 1..n |->
                      IF tenant_data.partition_keys[i] # <<>>
                      THEN compressed_avro_load(
                               decrypt(self.xpartitions[i], tenant_data.partition_keys[i]).plain,
                               "partition", self.version)
                      ELSE <<>>]]

(***************************************************************************)
(* writeout, writeout_master and writeout_tenant.  The destination is      *)
(* empty before, and is a tree as the source directory is: for a link      *)
(* whose SYMLINK_ABS flag is set the target is dest / (prefix + body),     *)
(* kept here relative to dest.  The mtime_ns of a link is not set (the     *)
(* code leaves it to the clock, now).                                      *)
(***************************************************************************)
\* from_data that leaves mtime_ns behind
from_data_without_mtime(data, version) ==
    [metadata |-> [mtime_ns |-> 0, flags |-> data.flags],
     partition_id |-> data.partition_id,
     body_id |-> data.body_id]

from_data(data, version) ==
    [metadata |-> [mtime_ns |-> data.mtime_ns, flags |-> data.flags],
     partition_id |-> data.partition_id,
     body_id |-> data.body_id]

\* writeout without os.utime, and with the link of an absolute target made to body
written_as_is(prefix, f, body, now) ==
    [kind |-> IF HasFlag(f.metadata.flags, SYMLINK_ABS) THEN "symlink_abs"
              ELSE IF HasFlag(f.metadata.flags, SYMLINK) THEN "symlink" ELSE "file",
     data |-> body, mtime_ns |-> now]

\* what writeout leaves at dest_path for item f, given body = partitions[..][..]
written_entry(prefix, f, body, now) ==
    IF HasFlag(f.metadata.flags, SYMLINK)
    THEN IF HasFlag(f.metadata.flags, SYMLINK_ABS)
         THEN [kind |-> "symlink_abs", data |-> prefix \o body, mtime_ns |-> now]
         ELSE [kind |-> "symlink", data |-> body, mtime_ns |-> now]
    ELSE [kind |-> "file", data |-> body, mtime_ns |-> f.metadata.mtime_ns]

written_under(partitions, prefix, f, now) ==
    written_entry(prefix, f, partitions[f.partition_id + 1][f.body_id + 1], now)

writeout(partitions, files, now) ==
    [p \in UNION {{prefix \o fname : fname \in DOMAIN files[prefix]} :
                      prefix \in DOMAIN files} |->
        written_under(partitions,
                      CHOOSE prefix \in DOMAIN files :
                          \E fname \in DOMAIN files[prefix] : prefix \o fname = p,
                      files[CHOOSE prefix \in DOMAIN files :
                                \E fname \in DOMAIN files[prefix] : prefix \o fname = p]
                           [CHOOSE fname \in UNION {DOMAIN files[prefix] : prefix \in DOMAIN files} :
                                \E prefix \in DOMAIN files :
                                    fname \in DOMAIN files[prefix] /\ prefix \o fname = p],
                      now)]

\* (f"tenants/{k}/" if k else "master/")
files_prefix(k) == IF k # "" THEN <<"tenants", k>> ELSE <<"master">>

writeout_master(self, master_data, now) ==
    writeout([i \in 1..Min(Len(master_data.partition_keys), Len(self.xpartitions)) |->
                 compressed_avro_load(
                     decrypt(self.xpartitions[i], master_data.partition_keys[i]).plain,
                     "partition", self.version)],
             [prefix \in {files_prefix(k) : k \in DOMAIN master_data.files} |->
                 [k2 \in DOMAIN master_data.files[
                            CHOOSE k \in DOMAIN master_data.files : files_prefix(k) = prefix] |->
                     from_data(master_data.files[
                                   CHOOSE k \in DOMAIN master_data.files :
                                       files_prefix(k) = prefix][k2],
                               self.version)]],
             now)

\* writeout_tenant once the manifest is open (o is what open_tenant gives)
tenant_written(o, version, now) ==
    IF ~o.ok THEN [error |-> "CryptoError", tree |-> <<>>]
    ELSE [error |-> "",
          tree |-> writeout(o.partitions,
                            (<<>> :> [k \in DOMAIN o.data.files |->
                                         from_data(o.data.files[k], version)]),
                            now)]

writeout_tenant(self, key_id, tenant_key, now) ==
    IF key_id \notin DOMAIN self.xtenants THEN [error |-> "KeyError", tree |-> <<>>]
    ELSE tenant_written(open_tenant(self, key_id, tenant_key), self.version, now)

(***************************************************************************)
(* The directories the model packs.  The mtime_ns of an entry is fixed by  *)
(* its path (all different), the rest is chosen.                           *)
(***************************************************************************)
MasterKey == <<"key", "master">>

PathTable ==
    << <<"master", "x">>, <<"master", "y">>, <<"master", "link">>,
       <<"master", "d", "link">>, <<"tenants", "one", "x">>,
       <<"tenants", "one", "link">>, <<"tenants", "two", "x">>,
       <<"tenants", "t">>, <<"top">>,
       <<".keep-tenant-key-one">>, <<".keep-tenant-key-two">> >>

mtime(p) == 100 * (CHOOSE i \in 1..Len(PathTable) : PathTable[i] = p)

File(p, data) == [kind |-> "file", data |-> data, mtime_ns |-> mtime(p)]
Link(p, target) == [kind |-> "symlink", data |-> target, mtime_ns |-> mtime(p)]
AbsLink(p, target) == [kind |-> "symlink_abs", data |-> target, mtime_ns |-> mtime(p)]
OutLink(p) == [kind |-> "symlink_out", data |-> <<"outside">>, mtime_ns |-> mtime(p)]

\* SpecPart: the regular files that may be written
FileChoices ==
    LET mx == <<"master", "x">>
        my == <<"master", "y">>
        ox == <<"tenants", "one", "x">>
        tx == <<"tenants", "two", "x">>
        tt == <<"tenants", "t">>
        top == <<"top">>
    IN  (mx :> {File(mx, <<"k">>), File(mx, <<"v">>)})
        @@ (my :> {File(my, <<"v">>), File(my, <<>>)})
        @@ (ox :> {File(ox, <<"k">>), File(ox, <<"v">>)})
        @@ (tx :> {File(tx, <<"k">>), File(tx, <<"v">>)})
        @@ (tt :> {File(tt, <<"k">>)})
        @@ (top :> {File(top, <<"k">>)})

\* SpecPart: the symbolic links that may be made
LinkChoices ==
    LET ml == <<"master", "link">>
        dl == <<"master", "d", "link">>
        ol == <<"tenants", "one", "link">>
    IN  (ml :> {Link(ml, <<"x">>), Link(ml, <<"..", "x">>),
                Link(ml, <<"..", "tenants", "one", "secret">>),
                AbsLink(ml, <<"master", "x">>), AbsLink(ml, <<"master">>),
                AbsLink(ml, <<"tenants", "one", "x">>), OutLink(ml)})
        @@ (dl :> {Link(dl, <<".", "..", "x">>), Link(dl, <<"..", "..", "x">>),
                   Link(dl, <<"..", "..", "..", "x">>)})
        @@ (ol :> {Link(ol, <<"x">>), Link(ol, <<"..", "x">>),
                   AbsLink(ol, <<"tenants", "one", "x">>),
                   AbsLink(ol, <<"tenants", "two", "x">>)})

\* Spec: what the command run by xmodify may leave in the working directory
CmdChoices ==
    LET mx == <<"master", "x">>
        ox == <<"tenants", "one", "x">>
        tx == <<"tenants", "two", "x">>
        k1 == <<".keep-tenant-key-one">>
        k2 == <<".keep-tenant-key-two">>
    IN  (mx :> {File(mx, <<"k">>)})
        @@ (ox :> {File(ox, <<"k">>), File(ox, <<"v">>)})
        @@ (tx :> {File(tx, <<"k">>)})
        @@ (k1 :> {File(k1, <<>>)})
        @@ (k2 :> {File(k2, <<>>)})

CmdTrees ==
    UNION { {t \in [S -> UNION {CmdChoices[p] : p \in S}] :
                \A p \in S : t[p] \in CmdChoices[p]} : S \in SUBSET DOMAIN CmdChoices }

RECURSIVE Perms(_)
Perms(S) ==
    IF S = {} THEN {<<>>}
    ELSE UNION { {<<x>> \o q : q \in Perms(S \ {x})} : x \in S }

Restrict(f, S) == [x \in S |-> f[x]]

(***************************************************************************)
(* SpecPart: a directory is written, file by file, and packed once with a  *)
(* new CryptoBlob and no existing tenants' keys.                           *)
(***************************************************************************)
NoDest == [op |-> "none", key_id |-> 0, tenant_key |-> <<>>, error |-> "", tree |-> <<>>]

WriteTime == 7    \* the clock when a destination is written

NoRun ==
    [outcome |-> "none", given |-> NoBlob, work |-> <<>>, before |-> NewCryptoBlob,
     existing |-> <<>>, master_exists |-> FALSE, rc |-> 0]

(***************************************************************************)
(* The storage backends (backends/storage_file.py, backends/storage_s3.py) *)
(* and the modifier of cmd_modify.  An Optional[bytes] is <<>> for None    *)
(* and <<b>> for the bytes b; bytes are the sequence of their lines.       *)
(* Time is counted in ticks of 1/TicksPerSecond seconds.                   *)
(***************************************************************************)
None == <<>>

Some(b) == <<b>>

TicksPerSecond == 2

\* the command of modify: what it does to the file blob, and its exit code
run_command(cmd, file) ==
    CASE cmd.does = "append" ->
            Some((IF file = None THEN <<>> ELSE file[1]) \o <<cmd.line>>)
      [] cmd.does = "remove" -> None
      [] cmd.does = "truncate" -> Some(<<>>)
      [] OTHER -> file

\* the modifier that writes back whatever the command left, whatever its exit code
modifier_ignores_rc(blob, cmd) ==
    [outcome |-> "returned", code |-> 0, result |-> run_command(cmd, blob)]

\* cmd_modify.modifier: the file blob holds the bytes given (if any), the command
\* runs, a non-zero rc ends the process, else the file blob is read back
cmd_modifier(blob, cmd) ==
    IF cmd.rc # 0
    THEN [outcome |-> "exit", code |-> cmd.rc, result |-> None]
    ELSE [outcome |-> "returned", code |-> 0, result |-> run_command(cmd, blob)]

\* a backend that writes whatever the modifier returns
always_puts(data, m) ==
    IF m.outcome # "returned" THEN "none" ELSE IF m.result = None THEN "delete" ELSE "put"

\* if new_data != data: unlink / delete when new_data is None, else write / put_object
storage_action(data, m) ==
    IF m.outcome # "returned" \/ m.result = data THEN "none"
    ELSE IF m.result = None THEN "delete" ELSE "put"

\* the object after the action
acted(obj, action, new_data) ==
    IF action = "delete" THEN None ELSE IF action = "put" THEN new_data ELSE obj

\* _digest
digest(data) == IF data = None THEN <<"*">> ELSE <<"sha1", data[1]>>

\* _DynamoDbKeyValueStore.get: the value of an item that has not expired
dynamo_get(item, now) ==
    IF item # None /\ item[1].expiry_time * TicksPerSecond > now THEN item[1].value
    ELSE None

\* _DynamoDbKeyValueStore.put: expiry_time is int(time.time() + ttl)
dynamo_put(value, now, ttl) ==
    Some([value |-> value, expiry_time |-> (now + ttl * TicksPerSecond) \div TicksPerSecond])

\* attempts of the download loop
attempts_for(max_lag, expected_digest) ==
    IF max_lag # 0 THEN (IF expected_digest = None THEN 1 ELSE max_lag) ELSE 1

\* the postponed() threads whose sleep is over act, in the order they were started
RECURSIVE landed(_, _, _)
landed(obj, threads, now) ==
    IF threads = <<>> THEN obj
    ELSE landed(IF Head(threads).due <= now
                THEN acted(obj, Head(threads).action, Head(threads).new_data) ELSE obj,
                Tail(threads), now)

sleeping(threads, now) == SelectSeq(threads, LAMBDA t : t.due > now)

Idle == [pc |-> "idle", cmd |-> [does |-> "nothing", line |-> "", rc |-> 0],
         expected_digest |-> None, attempts |-> 0, attempt |-> 0, data |-> None]

NoModify ==
    [op |-> "none", cmd |-> Idle.cmd, data |-> None, given |-> None, was |-> None,
     outcome |-> "", new_data |-> None, action |-> "none", calls |-> 0, code |-> 0,
     n |-> 0]

NoRead ==
    [blobs |-> <<>>, allow_errors |-> FALSE, rc |-> 0, done |-> FALSE, errors |-> FALSE,
     written |-> {}, ran |-> FALSE, exit_code |-> 0]

(***************************************************************************)
(* backend_intf.Options: the options of a locator, and the keys that were  *)
(* requested of them.  opts is the dict the caller supplied, used the set  *)
(* _used.  The other fields are history: the keys the caller of the object *)
(* asked for, and what the backend call that owns the object did.          *)
(***************************************************************************)
NoOptions ==
    [op |-> "none", backend |-> "none", loc |-> <<>>, opts |-> <<>>, used |-> {},
     asked |-> {}, done |-> FALSE, error |-> "", table_read |-> FALSE,
     object_touched |-> FALSE]

\* Options.get: the key is marked as used, supplied or not
get(o, key) == [o EXCEPT !.used = @ \cup {key}]

\* the value Options.get returns, None for a key that was not supplied
got(o, key) == IF key \in DOMAIN o.opts THEN Some(o.opts[key]) ELSE None

\* Options.mapped_update: one get for each option name of the mapping
mapped_update(o, mapping) == [o EXCEPT !.used = @ \cup mapping]

\* the list unused of fail_on_unused
unused(o) == DOMAIN o.opts \ o.used

\* Options.fail_on_unused: the error it raises, "" when it returns
fail_on_unused(o) == IF unused(o) # {} THEN "UnsupportedOptionsError" ELSE ""

\* a call that ended with the error e before it got to the stored object
failed_with(o, e) == [o EXCEPT !.done = TRUE, !.error = e]

\* a call that went on to read (and, for modify, to write) the stored object
went_on(o) == [o EXCEPT !.done = TRUE, !.object_touched = TRUE]

\* _boto_helpers.boto_session and boto_resource_s3
boto_session(o) == mapped_update(o, {"profile"})

boto_resource_s3(o) == mapped_update(o, {"region", "endpoint"})

boto_resource_dynamodb(o) == mapped_update(o, {"region", "dynamodb_endpoint"})

\* _BucketKey: the locator splits at its first slash, or BackendError
BucketKey(loc) == IF Len(loc) >= 2 THEN "" ELSE "BackendError"

\* int(opts.get("max_lag") or "30") for the values the model supplies
max_lag_of(o) ==
    IF got(o, "max_lag") = None THEN 30
    ELSE IF o.opts["max_lag"] = "0" THEN 0 ELSE 2

\* storage_file load and modify: fail_on_unused comes first
file_with(o) ==
    IF fail_on_unused(o) # "" THEN failed_with(o, fail_on_unused(o)) ELSE went_on(o)

\* storage_s3.Backend.load: the boto helpers, fail_on_unused, _BucketKey, the download
s3_load_checked(o) ==
    IF fail_on_unused(o) # "" THEN failed_with(o, fail_on_unused(o))
    ELSE IF BucketKey(o.loc) # "" THEN failed_with(o, BucketKey(o.loc))
    ELSE went_on(o)

s3_load_with(o) == s3_load_checked(boto_resource_s3(boto_session(o)))

\* _DynamoDbKeyValueStore(session, opts, ttl) and dynamo.get(loc)
dynamo_read(o) ==
    [boto_resource_dynamodb(get(o, "dynamodb_table")) EXCEPT !.table_read = TRUE]

\* storage_s3.Backend.modify from bk = _BucketKey(loc) on
s3_modify_checked(o) ==
    IF BucketKey(o.loc) # "" THEN failed_with(o, BucketKey(o.loc))
    ELSE IF fail_on_unused(o) # "" THEN failed_with(o, fail_on_unused(o))
    ELSE went_on(o)

\* storage_s3.Backend.modify up to expected_digest = dynamo.get(loc)
s3_modify_options(o) == get(get(boto_resource_s3(boto_session(o)), "_delay_put"), "max_lag")

s3_modify_with(o) ==
    IF max_lag_of(o) # 0 THEN s3_modify_checked(dynamo_read(s3_modify_options(o)))
    ELSE s3_modify_checked(s3_modify_options(o))


(***************************************************************************)
(* _cli.modify_blob_with_locks: one invocation.  Times are in ticks.  A    *)
(* lock is named by its backend and its loc; stack is the ExitStack, the   *)
(* locks entered so far in the order they were entered.  The fields        *)
(* released, held_at_end, modify_calls, modifier_calls, failed and outcome *)
(* are history.                                                            *)
(***************************************************************************)
NoCall ==
    [pc |-> "none", storage |-> [backend |-> "file", x |-> FALSE], locks |-> <<>>,
     first_timeout |-> 0, timeout_step |-> 0, i |-> 0, deadline |-> 0, attempt |-> 0,
     remaining |-> 0, timeout |-> 0, until |-> 0, stack |-> <<>>, released |-> <<>>,
     held_at_end |-> <<>>, failed |-> 0, modify_calls |-> 0, modifier_calls |-> 0,
     modify_over |-> FALSE, outcome |-> ""]

\* attempt is counted up to MaxCounted: the code asks only whether it is 0, 1 or more
MaxCounted == 3

counted(n) == Min(n, MaxCounted)

\* backends.storage_backend and backends.lock_backend: the names setup.py registers
storage_backend(name) == name \in {"file", "s3"}

lock_backend(name) == name \in {"file", "dynamodb"}

lock_id(lock) == <<lock.backend, lock.loc>>

\* the lock of the for loop's current iteration
current(c) == c.locks[c.i]

\* an exception leaves the with block: the ExitStack has its callbacks to run
leaves(c, outcome) ==
    [c EXCEPT !.pc = IF c.stack = <<>> THEN "ended" ELSE "unwinding",
              !.outcome = outcome, !.held_at_end = c.stack]

\* the timeout that is handed on as it comes, below zero too
unclamped_timeout(remaining, attempt, first_timeout, timeout_step) ==
    Min(remaining, IF attempt > 1 THEN timeout_step ELSE first_timeout)

\* max(0, min(remaining, timeout_step if attempt > 1 else first_timeout))
attempt_timeout(remaining, attempt, first_timeout, timeout_step) ==
    Max(0, Min(remaining, IF attempt > 1 THEN timeout_step ELSE first_timeout))

\* the invocation that goes on to modify as soon as it has entered one lock
modify_after_first_lock(c) ==
    [c EXCEPT !.stack = Append(c.stack, lock_id(current(c))), !.pc = "modify"]

\* es.enter_context returned and break: the next lock, or storage_backend.modify
after_enter(c) ==
    [c EXCEPT !.stack = Append(c.stack, lock_id(current(c))),
              !.pc = IF c.i < Len(c.locks) THEN "for" ELSE "modify"]

\* an ExitStack that runs its callbacks in the order they were pushed
pop_first_callback(c) ==
    [c EXCEPT !.stack = Tail(c.stack),
              !.released = Append(c.released, Head(c.stack)),
              !.pc = IF Len(c.stack) = 1 THEN "ended" ELSE "unwinding"]

\* ExitStack.__exit__: the callback pushed last is run, _Lock.__exit__ or FileLock's
pop_callback(c) ==
    [c EXCEPT !.stack = SubSeq(c.stack, 1, Len(c.stack) - 1),
              !.released = Append(c.released, c.stack[Len(c.stack)]),
              !.pc = IF Len(c.stack) = 1 THEN "ended" ELSE "unwinding"]

\* lock_backend.make_lock raises BackendError: lock_dynamodb calls fail_on_unused on
\* the lock's options, lock_file does not look at them
make_lock_fails(lock) == lock.backend = "dynamodb" /\ lock.x

\* the lock is free for the context manager that make_lock returned
is_free(c, held, id) ==
    /\ id \notin held
    /\ \A j \in 1..Len(c.stack) : c.stack[j] # id

\* the variables outside the packing layer while the packing layer runs
InitOthers ==
    /\ cb2 = NewCryptoBlob
    /\ storage = [backend |-> "none", max_lag |-> 0, delay_put |-> 0]
    /\ object = None
    /\ pending = <<>>
    /\ dynamo = None
    /\ clock = 0
    /\ run = Idle
    /\ modified = NoModify
    /\ latest = None
    /\ procs = <<>>
    /\ reading = NoRead
    /\ options = NoOptions
    /\ call = NoCall
    /\ elsewhere = {}

InitPart ==
    /\ tree = <<>>
    /\ phase = "edit"
    /\ collection = EmptyCollection
    /\ partitioned = FailedPartitions("")
    /\ cb = NewCryptoBlob
    /\ error = ""
    /\ stored = NoBlob
    /\ rnd = 0
    /\ issued = <<>>
    /\ last = NoRun
    /\ dest = NoDest
    /\ InitOthers

WriteFile(p, e) ==
    /\ phase = "edit"
    /\ p \notin DOMAIN tree
    /\ Cardinality(DOMAIN tree) < MaxFiles
    /\ tree' = (p :> e) @@ tree
    /\ UNCHANGED <<phase, collection, partitioned, cb, error, stored, rnd, issued, last, dest>>
    /\ UNCHANGED others

Symlink(p, e) ==
    /\ phase = "edit"
    /\ p \notin DOMAIN tree
    /\ Cardinality(DOMAIN tree) < MaxFiles
    /\ tree' = (p :> e) @@ tree
    /\ UNCHANGED <<phase, collection, partitioned, cb, error, stored, rnd, issued, last, dest>>
    /\ UNCHANGED others

Pack(order) ==
    /\ phase = "edit"
    /\ \E r \in {collect(NewCryptoBlob, tree, order, MasterKey, <<>>, 0)} :
           /\ collection' = r.collection
           /\ partitioned' = r.partitioned
           /\ cb' = r.cb
           /\ error' = r.error
    /\ phase' = "packed"
    /\ UNCHANGED <<tree, stored, rnd, issued, last, dest>>
    /\ UNCHANGED others

\* the packed blob's master manifest is opened and written out (test_collect_writeout)
WriteoutMaster ==
    /\ phase = "packed"
    /\ error = ""
    /\ \E m \in {unseal_master(cb, MasterKey)} :
           dest' = [op |-> "master", key_id |-> 0, tenant_key |-> MasterKey,
                    error |-> IF m.ok THEN "" ELSE "CryptoError",
                    tree |-> IF m.ok THEN writeout_master(cb, m.data, WriteTime) ELSE <<>>]
    /\ phase' = "written"
    /\ UNCHANGED <<tree, collection, partitioned, cb, error, stored, rnd, issued, last>>
    /\ UNCHANGED others

\* writeout_tenant with a key_id and a reader key of the master manifest's tenants_keys
WriteoutTenant(key_id, tenant_key) ==
    /\ phase = "packed"
    /\ error = ""
    /\ \E w \in {writeout_tenant(cb, key_id, tenant_key, WriteTime)} :
           dest' = [op |-> "tenant", key_id |-> key_id, tenant_key |-> tenant_key,
                    error |-> w.error, tree |-> w.tree]
    /\ phase' = "written"
    /\ UNCHANGED <<tree, collection, partitioned, cb, error, stored, rnd, issued, last>>
    /\ UNCHANGED others

\* the TenantKeys the master manifest of blob self records
recorded_keys(self, key) ==
    IF self.xmaster # <<>> /\ unseal_master(self, key).ok
    THEN {unseal_master(self, key).data.tenants_keys[i] :
             i \in 1..Len(unseal_master(self, key).data.tenants_keys)}
    ELSE {}

NextPart ==
    \/ \E p \in DOMAIN FileChoices : \E e \in FileChoices[p] : WriteFile(p, e)
    \/ \E p \in DOMAIN LinkChoices : \E e \in LinkChoices[p] : Symlink(p, e)
    \/ \E order \in Perms(DOMAIN tree) : Pack(order)
    \/ WriteoutMaster
    \/ \E a \in recorded_keys(cb, MasterKey) : WriteoutTenant(a.key_id, a.reader_key)

SpecPart == InitPart /\ [][NextPart]_vars

(***************************************************************************)
(* cmd_xmodify.modifier.  The command is given the working directory that  *)
(* writeout_master filled and may leave anything in it: work is what it    *)
(* left (the files and links, the keep-files among them), master_exists    *)
(* whether the directory master is still there, rc its exit code.  The     *)
(* result is what the modifier returns (result, NoBlob for None) or how it *)
(* ends otherwise (outcome "exit": sys.exit(rc); "raised": an exception).  *)
(***************************************************************************)
keep_path(name) == << ".keep-tenant-key-" \o name >>

\* existing_tenants_keys with nothing popped
keeps_every_key(existing, work) == existing

\* for k, v in keep_keys_paths.items(): ... else existing_tenants_keys.pop(k)
kept_keys(existing, work) ==
    SelectSeq(existing, LAMBDA i : keep_path(i.tenant_name) \in DOMAIN work)

\* the modifier up to the command: the CryptoBlob, and the tenants' keys of the
\* master manifest of the blob it was given
unsealed(cb0, m) ==
    [ok |-> m.ok, cb |-> cb0, existing |-> IF m.ok THEN get_tenants_keys(m.data) ELSE <<>>]

loaded(cb0, key) == unsealed(cb0, unseal_master(cb0, key))

load_existing(blob, key) ==
    IF blob # NoBlob THEN loaded(load_from_blob(blob), key)
    ELSE [ok |-> TRUE, cb |-> NewCryptoBlob, existing |-> <<>>]

keep_paths_of(existing) == {keep_path(existing[i].tenant_name) : i \in 1..Len(existing)}

\* {i: tdp.joinpath(f".keep-tenant-key-{i}") for i in existing_tenants_keys}
keep_keys_paths(blob, key) == keep_paths_of(load_existing(blob, key).existing)

\* how the modifier ends when it does not get through collect
ended(outcome, l, existing, e) ==
    [outcome |-> outcome, before |-> l.cb, existing |-> existing, src |-> <<>>,
     result |-> NoBlob, collection |-> EmptyCollection,
     partitioned |-> FailedPartitions(e), cb |-> l.cb, error |-> e]

\* the modifier after cb.collect: src is the working tree when collect runs (the
\* keep-files that were touched and are still there have been unlinked)
collected(l, existing, src, r) ==
    IF r.error # ""
    THEN [ended("raised", l, existing, r.error) EXCEPT !.src = src, !.cb = r.cb]
    ELSE [outcome |-> "returned", before |-> l.cb, existing |-> existing, src |-> src,
          result |-> dump_to_blob(r.cb), collection |-> r.collection,
          partitioned |-> r.partitioned, cb |-> r.cb, error |-> ""]

\* the modifier that collects whether the directory master is there or not
packs_without_master(l, key, work, master_exists, order, rc, seed) ==
    IF ~l.ok THEN ended("raised", l, <<>>, "CRYPTO_ERROR")
    ELSE IF rc # 0 THEN ended("exit", l, kept_keys(l.existing, work), "")
    ELSE collected(l, kept_keys(l.existing, work),
                   Restrict(work, DOMAIN work \ keep_paths_of(l.existing)),
                   collect(l.cb, Restrict(work, DOMAIN work \ keep_paths_of(l.existing)),
                           order, key, kept_keys(l.existing, work), seed))

after_command(l, key, work, master_exists, order, rc, seed) ==
    IF ~l.ok THEN ended("raised", l, <<>>, "CRYPTO_ERROR")
    ELSE IF rc # 0 THEN ended("exit", l, kept_keys(l.existing, work), "")
    ELSE IF ~master_exists THEN ended("returned", l, kept_keys(l.existing, work), "")
    ELSE collected(l, kept_keys(l.existing, work),
                   Restrict(work, DOMAIN work \ keep_paths_of(l.existing)),
                   collect(l.cb, Restrict(work, DOMAIN work \ keep_paths_of(l.existing)),
                           order, key, kept_keys(l.existing, work), seed))

modifier(blob, key, work, master_exists, order, rc, seed) ==
    after_command(load_existing(blob, key), key, work, master_exists, order, rc, seed)

(***************************************************************************)
(* The file storage backend's modify around the modifier: the object is    *)
(* written or unlinked only if the modifier returns, and returns something *)
(* else than it was given.                                                 *)
(***************************************************************************)
storage_modify(data, m) ==
    IF m.outcome = "returned" /\ m.result # data THEN m.result ELSE data

\* the TenantKeys of the new master manifest that collect did not get as existing
minted(m) ==
    LET md == unseal_master(m.cb, MasterKey).data
    IN  SelectSeq(md.tenants_keys,
                  LAMBDA i : \A j \in 1..Len(m.existing) : m.existing[j] # i)

Init ==
    /\ tree = <<>>
    /\ phase = "xmodify"
    /\ collection = EmptyCollection
    /\ partitioned = FailedPartitions("")
    /\ cb = NewCryptoBlob
    /\ error = ""
    /\ stored = NoBlob
    /\ rnd = 0
    /\ issued = <<>>
    /\ last = NoRun
    /\ dest = NoDest
    /\ InitOthers

XModify(work, master_exists, order, rc) ==
    /\ phase = "xmodify"
    /\ rnd < MaxPacks
    /\ \E m \in {modifier(stored, MasterKey, work, master_exists, order, rc, rnd)} :
          LET written == m.outcome = "returned" /\ m.result # NoBlob
          IN  /\ stored' = storage_modify(stored, m)
              /\ tree' = m.src
              /\ collection' = m.collection
              /\ partitioned' = m.partitioned
              /\ cb' = m.cb
              /\ error' = m.error
              /\ rnd' = IF written THEN rnd + 1 ELSE rnd
              /\ issued' = IF written THEN issued \o minted(m)
                           ELSE IF m.outcome = "returned" THEN <<>>
                           ELSE issued
              /\ last' = [outcome |-> IF written THEN "written"
                                      ELSE IF m.outcome = "returned" THEN "deleted"
                                      ELSE m.outcome,
                          given |-> stored,
                          work |-> work,
                          before |-> m.before,
                          existing |-> m.existing,
                          master_exists |-> master_exists,
                          rc |-> rc]
    /\ UNCHANGED <<phase, dest>>
    /\ UNCHANGED others

\* a working directory with a file that is neither under master/ nor tenants/
StrayTree ==
    (<<"master", "x">> :> File(<<"master", "x">>, <<"k">>))
    @@ (<<"top">> :> File(<<"top">>, <<"k">>))

\* what the command may leave: its keep-files are among those touched for it
WorkTrees(blob) ==
    {w \in CmdTrees :
        \A p \in DOMAIN w : Len(p) = 1 => p \in keep_keys_paths(blob, MasterKey)}

\* read --xblob of the stored blob with a reader key: load, load_from_blob and
\* writeout_tenant into the fresh directory of the blob's name
Read(key_id, tenant_key) ==
    /\ phase = "xmodify"
    /\ stored # NoBlob
    /\ \E w \in {writeout_tenant(load_from_blob(stored), key_id, tenant_key, WriteTime)} :
           dest' = [op |-> "tenant", key_id |-> key_id, tenant_key |-> tenant_key,
                    error |-> w.error, tree |-> w.tree]
    /\ phase' = "read"
    /\ UNCHANGED <<tree, collection, partitioned, cb, error, stored, rnd, issued, last>>
    /\ UNCHANGED others

\* the key_ids a reader may name: those of the tenants of the stored blob
stored_key_ids == IF stored = NoBlob THEN {} ELSE DOMAIN load_from_blob(stored).xtenants

Next ==
    \/ \E work \in IF phase = "xmodify" THEN WorkTrees(stored) ELSE {},
          master_exists \in BOOLEAN :
        /\ (\E p \in DOMAIN work : Head(p) = "master") => master_exists
        /\ \E order \in Perms(DOMAIN work \ keep_keys_paths(stored, MasterKey)) :
              XModify(work, master_exists, order, 0)
    \/ XModify(<<>>, TRUE, <<>>, 1)
    \/ XModify(StrayTree, TRUE, sorted(DOMAIN StrayTree), 0)
    \/ \E key_id \in stored_key_ids, i \in DOMAIN issued : Read(key_id, issued[i].reader_key)

Spec == Init /\ [][Next]_vars

(***************************************************************************)
(* SpecBlob: a version-1 CryptoBlob is filled as test_dump_load_blob fills *)
(* it, dumped, and the bytes are loaded into a new CryptoBlob.  A byte     *)
(* string of the test (a partition, the master manifest, a tenant          *)
(* manifest) is a one-piece sequence.                                      *)
(***************************************************************************)
\* the rest of the packing layer's variables, at rest
AtRest ==
    /\ tree = <<>>
    /\ collection = EmptyCollection
    /\ partitioned = FailedPartitions("")
    /\ error = ""
    /\ rnd = 0
    /\ issued = <<>>
    /\ last = NoRun
    /\ dest = NoDest

BlobKeyIds == {1, 2, 10, MaxDecimal}

BlobMaxIds == {0, 11, MaxDecimal}

BlobPartitions == {<<>>, << <<"01">> >>, << <<"01">>, <<"02">> >>, << <<"02">>, <<"01">> >>}

BlobTenants ==
    UNION {[S -> {<<"tenant1">>, <<"tenant2">>}] :
              S \in {K \in SUBSET BlobKeyIds : Cardinality(K) <= 2}}

InitBlob ==
    /\ phase = "filled"
    /\ cb \in [version : {1}, max_id : BlobMaxIds, xpartitions : BlobPartitions,
                xmaster : {<<>>, <<"fffe">>}, xtenants : BlobTenants]
    /\ stored = NoBlob
    /\ InitOthers
    /\ AtRest

DumpToBlob ==
    /\ phase = "filled"
    /\ stored' = dump_to_blob(cb)
    /\ phase' = "dumped"
    /\ UNCHANGED <<tree, collection, partitioned, cb, error, rnd, issued, last, dest, cb2>>
    /\ UNCHANGED <<store_vars, reading, options, loop_vars>>

LoadFromBlob ==
    /\ phase = "dumped"
    /\ cb2' = load_from_blob(stored)
    /\ phase' = "loaded"
    /\ UNCHANGED <<tree, collection, partitioned, cb, error, stored, rnd, issued, last,
                   dest>>
    /\ UNCHANGED <<store_vars, reading, options, loop_vars>>

NextBlob == DumpToBlob \/ LoadFromBlob

SpecBlob == InitBlob /\ [][NextBlob]_vars

(***************************************************************************)
(* SpecStore: modify calls, one after another (as under one lock), on one  *)
(* locator of the file backend or of the S3 backend with its options       *)
(* max_lag and _delay_put.  The file backend's modify is one step.  The S3 *)
(* backend's modify sleeps between its downloads, so it is a step for      *)
(* dynamo.get, a step per download (with the sleep that follows it) and a  *)
(* step for the modifier and what follows it.  Between two calls time may  *)
(* pass.                                                                   *)
(***************************************************************************)
MaxModifies == 3   \* modify calls in a run of SpecStore
MaxClock == 12     \* ticks in a run of SpecStore

MaxLags == {0, 1, 2}

DelayPuts == 0..3   \* _delay_put, in ticks

Locators ==
    {[backend |-> "file", max_lag |-> 0, delay_put |-> 0]}
    \cup [backend : {"s3"}, max_lag : MaxLags, delay_put : DelayPuts]

\* what the n-th command may be
Commands(n) ==
    [does : {"nothing", "append", "remove", "truncate"}, line : {str(n)}, rc : {0}]
    \cup [does : {"nothing", "append", "remove"}, line : {str(n)}, rc : {3}]

InitStore ==
    /\ phase = "store"
    /\ cb = NewCryptoBlob
    /\ stored = NoBlob
    /\ AtRest
    /\ cb2 = NewCryptoBlob
    /\ storage \in Locators
    /\ object = None
    /\ pending = <<>>
    /\ dynamo = None
    /\ clock = 0
    /\ run = Idle
    /\ modified = NoModify
    /\ latest = None
    /\ procs = <<>>
    /\ reading = NoRead
    /\ options = NoOptions
    /\ call = NoCall
    /\ elsewhere = {}

\* what a modify call leaves in the history
record_of(op, cmd, data, given, was, m, action, n) ==
    [op |-> op, cmd |-> cmd, data |-> data, given |-> given, was |-> was,
     outcome |-> m.outcome, new_data |-> m.result, action |-> action, calls |-> 1,
     code |-> m.code, n |-> n]

\* storage_file.Backend.modify with the modifier of cmd_modify
file_modified(cmd, data, m) ==
    /\ object' = acted(object, storage_action(data, m), m.result)
    /\ latest' = acted(latest, storage_action(data, m), m.result)
    /\ modified' = record_of("file", cmd, data, object, latest, m,
                             storage_action(data, m), modified.n + 1)

FileModify(cmd) ==
    /\ storage.backend = "file"
    /\ modified.n < MaxModifies
    /\ file_modified(cmd, object, cmd_modifier(object, cmd))
    /\ UNCHANGED <<storage, pending, dynamo, clock, run, procs>>
    /\ UNCHANGED <<packing, cb2, reading, options, loop_vars>>

\* storage_s3.Backend.modify up to the download loop
S3Begin(cmd) ==
    /\ storage.backend = "s3"
    /\ run.pc = "idle"
    /\ modified.n < MaxModifies
    /\ run' = [pc |-> "download", cmd |-> cmd,
               expected_digest |-> IF storage.max_lag # 0 THEN dynamo_get(dynamo, clock)
                                   ELSE None,
               attempts |-> attempts_for(storage.max_lag,
                                         IF storage.max_lag # 0
                                         THEN dynamo_get(dynamo, clock) ELSE None),
               attempt |-> 0, data |-> None]
    /\ UNCHANGED <<storage, object, pending, dynamo, clock, modified, latest, procs>>
    /\ UNCHANGED <<packing, cb2, reading, options, loop_vars>>

\* one turn of "for attempt in range(attempts)": the download, the comparison of the
\* digests, and time.sleep(1) if they differ
S3Attempt ==
    /\ run.pc = "download"
    /\ IF storage.max_lag # 0 /\ digest(object) = run.expected_digest
       THEN /\ run' = [run EXCEPT !.pc = "modifier", !.data = object]
            /\ UNCHANGED <<object, pending, clock>>
       ELSE /\ clock + TicksPerSecond <= MaxClock
            /\ run' = [run EXCEPT !.pc = IF run.attempt + 1 < run.attempts
                                         THEN "download" ELSE "modifier",
                                  !.attempt = run.attempt + 1,
                                  !.data = object]
            /\ clock' = clock + TicksPerSecond
            /\ object' = landed(object, pending, clock + TicksPerSecond)
            /\ pending' = sleeping(pending, clock + TicksPerSecond)
    /\ UNCHANGED <<storage, dynamo, modified, latest, procs>>
    /\ UNCHANGED <<packing, cb2, reading, options, loop_vars>>

\* a modify that leaves the side table as it is
records_nothing(item, m, action, max_lag, now) == item

\* if new_data != data: if max_lag: dynamo.put(loc, _digest(new_data))
recorded(item, m, action, max_lag, now) ==
    IF action # "none" /\ max_lag # 0 THEN dynamo_put(digest(m.result), now, max_lag)
    ELSE item

\* the action on the object, now or in a postponed() thread, and the end of the call
s3_modified(cmd, data, m, action) ==
    /\ object' = IF storage.delay_put = 0 THEN acted(object, action, m.result) ELSE object
    /\ pending' = IF action # "none" /\ storage.delay_put # 0
                  THEN Append(pending, [due |-> clock + storage.delay_put,
                                        action |-> action, new_data |-> m.result])
                  ELSE pending
    /\ latest' = acted(latest, action, m.result)
    /\ modified' = record_of("s3", cmd, data, object, latest, m, action, modified.n + 1)

\* new_data = modifier(data) and, if it differs and max_lag is set, dynamo.put; a
\* call that has nothing to record goes on to its end in the same step
s3_modifier_called(m, action) ==
    /\ dynamo' = recorded(dynamo, m, action, storage.max_lag, clock)
    /\ IF action # "none" /\ storage.max_lag # 0
       THEN /\ run' = [run EXCEPT !.pc = "action"]
            /\ UNCHANGED <<object, pending, latest, modified>>
       ELSE /\ s3_modified(run.cmd, run.data, m, action)
            /\ run' = Idle

S3Modifier ==
    /\ run.pc = "modifier"
    /\ s3_modifier_called(cmd_modifier(run.data, run.cmd),
                          storage_action(run.data, cmd_modifier(run.data, run.cmd)))
    /\ UNCHANGED <<storage, clock, procs>>
    /\ UNCHANGED <<packing, cb2, reading, options, loop_vars>>

\* action(bucket), or the start of the thread that will call it
S3Action ==
    /\ run.pc = "action"
    /\ s3_modified(run.cmd, run.data, cmd_modifier(run.data, run.cmd),
                   storage_action(run.data, cmd_modifier(run.data, run.cmd)))
    /\ run' = Idle
    /\ UNCHANGED <<storage, dynamo, clock, procs>>
    /\ UNCHANGED <<packing, cb2, reading, options, loop_vars>>

\* between two modify calls a tick passes
Tick ==
    /\ storage.backend = "s3"
    /\ run.pc = "idle"
    /\ clock < MaxClock
    /\ clock' = clock + 1
    /\ object' = landed(object, pending, clock + 1)
    /\ pending' = sleeping(pending, clock + 1)
    /\ UNCHANGED <<storage, dynamo, run, modified, latest, procs>>
    /\ UNCHANGED <<packing, cb2, reading, options, loop_vars>>

NextStore ==
    \/ \E cmd \in Commands(modified.n + 1) : FileModify(cmd)
    \/ \E cmd \in Commands(modified.n + 1) : S3Begin(cmd)
    \/ S3Attempt
    \/ S3Modifier
    \/ S3Action
    \/ Tick

SpecStore == InitStore /\ [][NextStore]_vars

(***************************************************************************)
(* SpecLock: concurrent modify invocations on one blob of the file         *)
(* backend, each with its list of file locks (modify_blob_with_locks) and  *)
(* a command that appends the invocation's own line.  A file lock is held  *)
(* by an invocation from the make_lock that entered it to the exit of the  *)
(* ExitStack.  MakeLock is the end of one lock attempt: the lock is        *)
(* entered if no one holds it, and TimeoutError is raised if it is still   *)
(* held when the attempt's timeout is over.  Whether the deadline of the   *)
(* lock's timeout option has passed after a failed attempt is the clock's  *)
(* choice, after MaxAttempts attempts it has.                              *)
(***************************************************************************)
NProcs == 3        \* concurrent modify invocations
MaxAttempts == 2   \* lock attempts of an invocation on one lock

LockLists == {<<"a">>, <<"b">>, <<"a", "b">>}

NoTry == [loc |-> "", result |-> "", held |-> FALSE]

NewProc(locks) ==
    [locks |-> locks, got |-> 0, attempt |-> 0, pc |-> "locking", data |-> None,
     tried |-> NoTry, waited |-> FALSE]

\* an ExitStack that keeps only the first of its locks
first_lock_only(ps, loc) ==
    {q \in DOMAIN ps : ps[q].got >= 1 /\ ps[q].locks[1] = loc}

\* the invocations that hold the lock file loc + ".lock"
holders(ps, loc) ==
    {q \in DOMAIN ps : \E i \in 1..ps[q].got : ps[q].locks[i] = loc}

\* a lock file that anyone may lock whoever holds it
never_held(ps, loc) == FALSE

\* the lock file loc + ".lock" is locked by some FileLock
is_held(ps, loc) == holders(ps, loc) # {}

InitLock ==
    /\ phase = "lock"
    /\ cb = NewCryptoBlob
    /\ stored = NoBlob
    /\ AtRest
    /\ cb2 = NewCryptoBlob
    /\ storage = [backend |-> "file", max_lag |-> 0, delay_put |-> 0]
    /\ object = None
    /\ pending = <<>>
    /\ dynamo = None
    /\ clock = 0
    /\ run = Idle
    /\ modified = NoModify
    /\ latest = None
    /\ procs \in [1..NProcs -> {NewProc(l) : l \in LockLists}]
    /\ reading = NoRead
    /\ options = NoOptions
    /\ call = NoCall
    /\ elsewhere = {}

\* es.enter_context(lock_backend.make_lock(...)): entered, or TimeoutError and continue
MakeLock(p) ==
    /\ procs[p].pc = "locking"
    /\ procs[p].got < Len(procs[p].locks)
    /\ procs[p].attempt < MaxAttempts
    /\ procs' = [procs EXCEPT ![p] =
           IF is_held(procs, procs[p].locks[procs[p].got + 1])
           THEN [procs[p] EXCEPT !.attempt = procs[p].attempt + 1,
                                 !.waited = TRUE,
                                 !.tried = [loc |-> procs[p].locks[procs[p].got + 1],
                                            result |-> "TimeoutError", held |-> TRUE]]
           ELSE [procs[p] EXCEPT !.got = procs[p].got + 1,
                                 !.attempt = 0,
                                 !.tried = [loc |-> procs[p].locks[procs[p].got + 1],
                                            result |-> "entered", held |-> FALSE]]]
    /\ UNCHANGED <<storage, object, pending, dynamo, clock, run, modified, latest>>
    /\ UNCHANGED <<packing, cb2, reading, options, loop_vars>>

\* if attempt > 0 and remaining < 0: raise ClickException; the ExitStack unlocks
TimedOut(p) ==
    /\ procs[p].pc = "locking"
    /\ procs[p].got < Len(procs[p].locks)
    /\ procs[p].attempt > 0
    /\ procs' = [procs EXCEPT ![p] = [procs[p] EXCEPT !.pc = "timed out", !.got = 0]]
    /\ UNCHANGED <<storage, object, pending, dynamo, clock, run, modified, latest>>
    /\ UNCHANGED <<packing, cb2, reading, options, loop_vars>>

\* storage_file.Backend.modify up to the modifier: the file is read
ReadObject(p) ==
    /\ procs[p].pc = "locking"
    /\ procs[p].got = Len(procs[p].locks)
    /\ procs' = [procs EXCEPT ![p] = [procs[p] EXCEPT !.pc = "modifier", !.data = object]]
    /\ UNCHANGED <<storage, object, pending, dynamo, clock, run, modified, latest>>
    /\ UNCHANGED <<packing, cb2, reading, options, loop_vars>>

\* the modifier runs the command and the backend writes what it returns
lock_modified(p, data, m) ==
    /\ object' = acted(object, storage_action(data, m), m.result)
    /\ latest' = acted(latest, storage_action(data, m), m.result)
    /\ modified' = record_of("file", [does |-> "append", line |-> str(p), rc |-> 0],
                             data, object, latest, m, storage_action(data, m),
                             modified.n + 1)

WriteObject(p) ==
    /\ procs[p].pc = "modifier"
    /\ lock_modified(p, procs[p].data,
                     cmd_modifier(procs[p].data, [does |-> "append", line |-> str(p), rc |-> 0]))
    /\ procs' = [procs EXCEPT ![p] = [procs[p] EXCEPT !.pc = "written"]]
    /\ UNCHANGED <<storage, pending, dynamo, clock, run>>
    /\ UNCHANGED <<packing, cb2, reading, options, loop_vars>>

\* the with block of the ExitStack ends: the locks are released
ExitStack(p) ==
    /\ procs[p].pc = "written"
    /\ procs' = [procs EXCEPT ![p] = [procs[p] EXCEPT !.pc = "done", !.got = 0]]
    /\ UNCHANGED <<storage, object, pending, dynamo, clock, run, modified, latest>>
    /\ UNCHANGED <<packing, cb2, reading, options, loop_vars>>

NextLock ==
    \E p \in 1..NProcs :
        \/ MakeLock(p)
        \/ TimedOut(p)
        \/ ReadObject(p)
        \/ WriteObject(p)
        \/ ExitStack(p)

SpecLock == InitLock /\ [][NextLock]_vars

(***************************************************************************)
(* SpecRead: one read invocation (cmd_read) with up to MaxBlobs --blob     *)
(* options, each a locator of the file backend whose file is there or not, *)
(* or of a backend that does not exist, with or without --allow-errors,    *)
(* and a command with its exit code.  The blobs are named by their place   *)
(* in the command line.                                                    *)
(***************************************************************************)
MaxBlobs == 3   \* --blob options of a read invocation

BlobLocators ==
    [backend : {"file"}, object : {None, Some(<<"x">>)}]
    \cup [backend : {"nope"}, object : {None}]

BlobLists == UNION {[1..n -> BlobLocators] : n \in 0..MaxBlobs}

\* backends.storage_backend and storage_file.Backend.load: the bytes, or BackendError
load(loc) ==
    IF loc.backend # "file" THEN [error |-> "BackendError", data |-> None]
    ELSE IF loc.object = None THEN [error |-> "BackendError", data |-> None]
    ELSE [error |-> "", data |-> loc.object]

\* a read that gives up on errors whatever --allow-errors says
exits_on_any_error(errors, allow_errors) == errors

\* if errors and not opts["allow_errors"]: sys.exit(1)
exits_on_error(errors, allow_errors) == errors /\ ~allow_errors

\* the loop "for name, loc in blobs.items()", from blob i on
RECURSIVE read_blobs(_, _, _, _, _)
read_blobs(blobs, i, errors, written, allow_errors) ==
    IF i > Len(blobs) THEN [exited |-> FALSE, errors |-> errors, written |-> written]
    ELSE IF exits_on_error(errors \/ load(blobs[i]).error # "", allow_errors)
    THEN [exited |-> TRUE, errors |-> TRUE, written |-> written]
    ELSE read_blobs(blobs, i + 1, errors \/ load(blobs[i]).error # "",
                    IF load(blobs[i]).error = "" THEN written \cup {i} ELSE written,
                    allow_errors)

\* cmd_read after the loop: the command runs, and a non-zero rc is the exit code
read_ended(r, l) ==
    [r EXCEPT !.done = TRUE, !.errors = l.errors, !.written = l.written,
              !.ran = ~l.exited,
              !.exit_code = IF l.exited THEN 1 ELSE r.rc]

InitRead ==
    /\ phase = "read"
    /\ cb = NewCryptoBlob
    /\ stored = NoBlob
    /\ AtRest
    /\ cb2 = NewCryptoBlob
    /\ storage = [backend |-> "none", max_lag |-> 0, delay_put |-> 0]
    /\ object = None
    /\ pending = <<>>
    /\ dynamo = None
    /\ clock = 0
    /\ run = Idle
    /\ modified = NoModify
    /\ latest = None
    /\ procs = <<>>
    /\ reading \in {[NoRead EXCEPT !.blobs = b, !.allow_errors = a, !.rc = rc] :
                       b \in BlobLists, a \in BOOLEAN, rc \in {0, 1, 2}}
    /\ options = NoOptions
    /\ call = NoCall
    /\ elsewhere = {}

CmdRead ==
    /\ ~reading.done
    /\ reading' = read_ended(reading, read_blobs(reading.blobs, 1, FALSE, {},
                                                 reading.allow_errors))
    /\ UNCHANGED <<packing, cb2, store_vars, options, loop_vars>>

NextRead == CmdRead

SpecRead == InitRead /\ [][NextRead]_vars

(***************************************************************************)
(* SpecOpts: one Options object.  Either its caller requests keys of it    *)
(* and then calls fail_on_unused, or a storage backend's load or modify is *)
(* called with it.                                                         *)
(***************************************************************************)
MaxOptions == 2

OptionKeys ==
    {"profile", "region", "endpoint", "dynamodb_table", "dynamodb_endpoint", "max_lag",
     "_delay_put", "x"}

OptionValues(k) == IF k = "max_lag" THEN {"0", "2"} ELSE {"y"}

Supplied ==
    UNION {{f \in [ks -> {"0", "2", "y"}] : \A k \in ks : f[k] \in OptionValues(k)} :
              ks \in {t \in SUBSET OptionKeys : Cardinality(t) <= MaxOptions}}

OptLocators == {<<"bucket", "key">>, <<"bucket">>}

Mappings == {{"profile"}, {"region", "endpoint"}, {"region", "dynamodb_endpoint"}}

InitOpts ==
    /\ phase = "options"
    /\ cb = NewCryptoBlob
    /\ stored = NoBlob
    /\ AtRest
    /\ cb2 = NewCryptoBlob
    /\ storage = [backend |-> "none", max_lag |-> 0, delay_put |-> 0]
    /\ object = None
    /\ pending = <<>>
    /\ dynamo = None
    /\ clock = 0
    /\ run = Idle
    /\ modified = NoModify
    /\ latest = None
    /\ procs = <<>>
    /\ reading = NoRead
    /\ options \in
           {[NoOptions EXCEPT !.op = "options", !.opts = f] : f \in Supplied}
           \cup {[NoOptions EXCEPT !.op = op, !.backend = b, !.loc = l, !.opts = f] :
                    op \in {"load", "modify"}, b \in {"file", "s3"}, l \in OptLocators,
                    f \in Supplied}
    /\ call = NoCall
    /\ elsewhere = {}

\* opts.get(key) by the caller of the object
Get(key) ==
    /\ options.op = "options" /\ ~options.done
    /\ options' = [get(options, key) EXCEPT !.asked = @ \cup {key}]
    /\ UNCHANGED <<packing, cb2, store_vars, reading, loop_vars>>

\* opts.mapped_update(mapping, d) by the caller of the object
MappedUpdate(mapping) ==
    /\ options.op = "options" /\ ~options.done
    /\ options' = [mapped_update(options, mapping) EXCEPT !.asked = @ \cup mapping]
    /\ UNCHANGED <<packing, cb2, store_vars, reading, loop_vars>>

\* opts.fail_on_unused() by the caller of the object
FailOnUnused ==
    /\ options.op = "options" /\ ~options.done
    /\ options' = failed_with(options, fail_on_unused(options))
    /\ UNCHANGED <<packing, cb2, store_vars, reading, loop_vars>>

\* storage_backend(name).load(loc=loc, opts=opts)
LoadWith ==
    /\ options.op = "load" /\ ~options.done
    /\ options' = IF options.backend = "file" THEN file_with(options)
                  ELSE s3_load_with(options)
    /\ UNCHANGED <<packing, cb2, store_vars, reading, loop_vars>>

\* storage_backend(name).modify(loc=loc, modifier=modifier, opts=opts)
ModifyWith ==
    /\ options.op = "modify" /\ ~options.done
    /\ options' = IF options.backend = "file" THEN file_with(options)
                  ELSE s3_modify_with(options)
    /\ UNCHANGED <<packing, cb2, store_vars, reading, loop_vars>>

NextOpts ==
    \/ \E key \in OptionKeys : Get(key)
    \/ \E mapping \in Mappings : MappedUpdate(mapping)
    \/ FailOnUnused
    \/ LoadWith
    \/ ModifyWith

SpecOpts == InitOpts /\ [][NextOpts]_vars

(***************************************************************************)
(* SpecLoop: one modify_blob_with_locks invocation with its timed lock     *)
(* loops, beside other processes that take and release the same locks.     *)
(* Time passes while the invocation is in a lock's while loop.             *)
(***************************************************************************)
LoopLock(backend, loc, timeout, x) ==
    [backend |-> backend, loc |-> loc, timeout |-> timeout, x |-> x]

LoopLockLists ==
    {<<>>,
     <<LoopLock("file", "a", 0, FALSE)>>,
     <<LoopLock("file", "a", 3, TRUE)>>,
     <<LoopLock("dynamodb", "b", 3, FALSE)>>,
     <<LoopLock("file", "a", 3, FALSE), LoopLock("file", "b", 0, FALSE)>>,
     <<LoopLock("file", "a", 0, FALSE), LoopLock("file", "b", 3, FALSE)>>,
     <<LoopLock("file", "a", 3, FALSE), LoopLock("file", "a", 3, FALSE)>>,
     <<LoopLock("file", "a", 0, FALSE), LoopLock("dynamodb", "b", 3, TRUE)>>,
     <<LoopLock("file", "a", 0, FALSE), LoopLock("nope", "b", 0, FALSE)>>}

LoopStorages ==
    {[backend |-> "file", x |-> FALSE], [backend |-> "file", x |-> TRUE],
     [backend |-> "nope", x |-> FALSE]}

TimeoutSteps == {1, 2}

LockIds == {lock_id(call.locks[j]) : j \in 1..Len(call.locks)}

InitLoop ==
    /\ phase = "loop"
    /\ cb = NewCryptoBlob
    /\ stored = NoBlob
    /\ AtRest
    /\ cb2 = NewCryptoBlob
    /\ storage = [backend |-> "file", max_lag |-> 0, delay_put |-> 0]
    /\ object = None
    /\ pending = <<>>
    /\ dynamo = None
    /\ clock = 0
    /\ run = Idle
    /\ modified = NoModify
    /\ latest = None
    /\ procs = <<>>
    /\ reading = NoRead
    /\ options = NoOptions
    /\ call \in {[NoCall EXCEPT !.pc = "lookup", !.storage = st, !.locks = l,
                                !.first_timeout = 1, !.timeout_step = step] :
                    st \in LoopStorages, l \in LoopLockLists, step \in TimeoutSteps}
    /\ elsewhere = {}

LoopStep(c) ==
    /\ call' = c
    /\ UNCHANGED <<packing, cb2, store_vars, reading, options, elsewhere>>

\* storage_backend(storage.backend) and lock_backend(lock.backend) for every lock
Lookup ==
    /\ call.pc = "lookup"
    /\ LoopStep(IF /\ storage_backend(call.storage.backend)
                   /\ \A j \in 1..Len(call.locks) : lock_backend(call.locks[j].backend)
                THEN [call EXCEPT !.pc = IF call.locks = <<>> THEN "modify" ELSE "for"]
                ELSE [call EXCEPT !.pc = "ended", !.outcome = "unknown backend"])

\* the head of the for loop: deadline = time.time() + total_timeout, attempt = 0
ForLock ==
    /\ call.pc = "for"
    /\ LoopStep([call EXCEPT !.pc = "while", !.i = call.i + 1,
                             !.deadline = clock + call.locks[call.i + 1].timeout,
                             !.attempt = 0, !.failed = 0])

\* one pass of the while loop up to the call of make_lock
attempted(c, remaining) ==
    IF c.attempt > 0 /\ remaining < 0
    THEN leaves([c EXCEPT !.remaining = remaining], "timed out")
    ELSE IF make_lock_fails(current(c))
    THEN leaves([c EXCEPT !.remaining = remaining, !.attempt = counted(c.attempt + 1)],
                "lock error")
    ELSE [c EXCEPT !.pc = "waiting", !.remaining = remaining,
                   !.attempt = counted(c.attempt + 1),
                   !.timeout = attempt_timeout(remaining, c.attempt + 1,
                                               c.first_timeout, c.timeout_step),
                   !.until = clock + attempt_timeout(remaining, c.attempt + 1,
                                                     c.first_timeout, c.timeout_step)]

Attempt ==
    /\ call.pc = "while"
    /\ LoopStep(attempted(call, call.deadline - clock))

\* the context manager is entered: the lock is taken
EnterContext ==
    /\ call.pc = "waiting"
    /\ is_free(call, elsewhere, lock_id(current(call)))
    /\ LoopStep(after_enter(call))

\* the lock is still held when the timeout is over: TimeoutError, continue
TimeoutError ==
    /\ call.pc = "waiting"
    /\ ~is_free(call, elsewhere, lock_id(current(call)))
    /\ clock >= call.until
    /\ LoopStep([call EXCEPT !.pc = "while", !.failed = counted(call.failed + 1)])

\* storage_backend.modify is called; storage_file checks the options first
CallModify ==
    /\ call.pc = "modify"
    /\ LoopStep(IF call.storage.x
                THEN leaves([call EXCEPT !.modify_calls = call.modify_calls + 1,
                                         !.modify_over = TRUE], "backend error")
                ELSE [call EXCEPT !.pc = "modifier",
                                  !.modify_calls = call.modify_calls + 1])

\* the modifier is called and returns new data, raises or calls sys.exit
Modifier(r) ==
    /\ call.pc = "modifier"
    /\ call' = leaves([call EXCEPT !.modifier_calls = call.modifier_calls + 1,
                                   !.modify_over = TRUE], r)
    /\ object' = IF r = "returned" THEN Some(<<"new">>) ELSE object
    /\ UNCHANGED <<packing, cb2, reading, options, elsewhere>>
    /\ UNCHANGED <<storage, pending, dynamo, clock, run, modified, latest, procs>>

\* the ExitStack runs one callback
Unwind ==
    /\ call.pc = "unwinding"
    /\ LoopStep(pop_callback(call))

\* another process takes a lock that is free, or releases one it holds
OtherLocks(id) ==
    /\ call.pc \notin {"ended", "lookup"}
    /\ id \notin elsewhere
    /\ is_free(call, elsewhere, id)
    /\ elsewhere' = elsewhere \cup {id}
    /\ UNCHANGED <<packing, cb2, store_vars, reading, options, call>>

OtherUnlocks(id) ==
    /\ id \in elsewhere
    /\ elsewhere' = elsewhere \ {id}
    /\ UNCHANGED <<packing, cb2, store_vars, reading, options, call>>

\* time.time() moves on while the invocation is in a lock's while loop
Pass ==
    /\ call.pc \in {"while", "waiting"}
    /\ clock <= call.deadline
    /\ clock' = clock + 1
    /\ UNCHANGED <<packing, cb2, reading, options, loop_vars>>
    /\ UNCHANGED <<storage, object, pending, dynamo, run, modified, latest, procs>>

NextLoop ==
    \/ Lookup
    \/ ForLock
    \/ Attempt
    \/ EnterContext
    \/ TimeoutError
    \/ CallModify
    \/ \E r \in {"returned", "raised", "exit"} : Modifier(r)
    \/ Unwind
    \/ \E id \in LockIds : OtherLocks(id)
    \/ \E id \in LockIds : OtherUnlocks(id)
    \/ Pass

SpecLoop == InitLoop /\ [][NextLoop]_vars

\* the invocation's own steps are taken, make_lock returns and time moves on
SpecLoopFair ==
    /\ SpecLoop
    /\ WF_vars(Lookup) /\ WF_vars(ForLock) /\ WF_vars(Attempt)
    /\ WF_vars(EnterContext \/ TimeoutError)
    /\ WF_vars(CallModify) /\ WF_vars(\E r \in {"returned", "raised", "exit"} : Modifier(r))
    /\ WF_vars(Unwind) /\ WF_vars(Pass)

(***************************************************************************)
(* What the claims speak of, read off the source directory and not off the *)
(* code: the root of a principal, the files below it, and the body a file  *)
(* stands for (for a link whose target was absolute, the target below the  *)
(* root of the link's principal).                                          *)
(***************************************************************************)
PrincipalNames == {""} \cup {NameOrder[i] : i \in 1..Len(NameOrder)}

PrincipalRoot(P) == IF P = "" THEN <<"master">> ELSE <<"tenants", P>>

IsUnder(f, P) ==
    /\ Len(f) > Len(PrincipalRoot(P))
    /\ SubSeq(f, 1, Len(PrincipalRoot(P))) = PrincipalRoot(P)

OwnFiles(P) == {f \in DOMAIN tree : IsUnder(f, P)}

SourcePrincipals == {P \in PrincipalNames : OwnFiles(P) # {}}

Below(f, P) == SubSeq(f, Len(PrincipalRoot(P)) + 1, Len(f))

SourceBody(f, P) ==
    IF tree[f].kind = "symlink_abs"
    THEN SubSeq(tree[f].data, Len(PrincipalRoot(P)) + 1, Len(tree[f].data))
    ELSE tree[f].data

SourceBodies(P) == {SourceBody(f, P) : f \in OwnFiles(P)}

AllSourceBodies == UNION {SourceBodies(P) : P \in SourcePrincipals}

Visibility(b) == {P \in SourcePrincipals : b \in SourceBodies(P)}

PartitionIds == 0..(Len(partitioned.partitions) - 1)

BodiesOf(i) ==
    {partitioned.partitions[i + 1][j] : j \in 1..Len(partitioned.partitions[i + 1])}

Packed == phase = "packed" /\ error = ""

(***************************************************************************)
(* C1: in the output of partition_files, for every principal P, the bodies *)
(* in the partitions of used_partitions[P] are exactly the bodies P's own  *)
(* files stand for, and used_partitions[P] is exactly the set of partition *)
(* ids P's file entries point to.                                          *)
(***************************************************************************)
C1_EntitledExactly ==
    Packed =>
        /\ DOMAIN partitioned.files = SourcePrincipals
        /\ DOMAIN partitioned.used_partitions = SourcePrincipals
        /\ \A P \in SourcePrincipals :
              /\ UNION {BodiesOf(i) : i \in partitioned.used_partitions[P]} = SourceBodies(P)
              /\ partitioned.used_partitions[P] =
                    {partitioned.files[P][n].partition_id : n \in DOMAIN partitioned.files[P]}

\* a tenant with files is packed beside a partition it is not entitled to
C1_Witness ==
    /\ Packed
    /\ \E P \in SourcePrincipals \ {""} :
          \E i \in PartitionIds :
              /\ i \notin partitioned.used_partitions[P]
              /\ partitioned.used_partitions[P] # {}

(***************************************************************************)
(* C2: after collect, the manifest of every tenant T holds, for every      *)
(* partition index i, the key of partition i if i is in used_partitions[T] *)
(* and the empty byte string otherwise, and every file entry of the        *)
(* manifest has a partition_id in used_partitions[T].                      *)
(***************************************************************************)
MasterManifest == unseal_master(cb, MasterKey).data

KeysOf(T) ==
    MasterManifest.tenants_keys[
        CHOOSE i \in 1..Len(MasterManifest.tenants_keys) :
            MasterManifest.tenants_keys[i].tenant_name = T]

TenantManifest(T) == open_tenant(cb, KeysOf(T).key_id, KeysOf(T).reader_key)

C2_TenantHoles ==
    Packed =>
        /\ Len(MasterManifest.partition_keys) = Len(partitioned.partitions)
        /\ \A i \in PartitionIds :
              decrypt(cb.xpartitions[i + 1], MasterManifest.partition_keys[i + 1]).ok
        /\ \A T \in SourcePrincipals \ {""} :
              /\ \E i \in 1..Len(MasterManifest.tenants_keys) :
                    MasterManifest.tenants_keys[i].tenant_name = T
              /\ TenantManifest(T).ok
              /\ Len(TenantManifest(T).data.partition_keys) = Len(partitioned.partitions)
              /\ \A i \in PartitionIds :
                    TenantManifest(T).data.partition_keys[i + 1] =
                        IF i \in partitioned.used_partitions[T]
                        THEN MasterManifest.partition_keys[i + 1]
                        ELSE <<>>
              /\ \A n \in DOMAIN TenantManifest(T).data.files :
                    TenantManifest(T).data.files[n].partition_id
                        \in partitioned.used_partitions[T]

\* a tenant's manifest with a key and a hole
C2_Witness ==
    /\ Packed
    /\ \E T \in SourcePrincipals \ {""} :
          /\ TenantManifest(T).ok
          /\ \E i, j \in PartitionIds :
                /\ TenantManifest(T).data.partition_keys[i + 1] = <<>>
                /\ TenantManifest(T).data.partition_keys[j + 1] # <<>>

(***************************************************************************)
(* C3, as claimed: when master/x and tenants/one/x are regular files with  *)
(* the same contents, their bodies are put in different partitions.        *)
(***************************************************************************)
MasterX == <<"master", "x">>
OneX == <<"tenants", "one", "x">>

SameContents ==
    /\ Packed
    /\ {MasterX, OneX} \subseteq DOMAIN tree
    /\ tree[MasterX].kind = "file"
    /\ tree[OneX].kind = "file"
    /\ tree[MasterX].data = tree[OneX].data

C3_IdenticalBodiesApart ==
    SameContents =>
        partitioned.files[""][<<"x">>].partition_id
            # partitioned.files["one"][<<"x">>].partition_id

(***************************************************************************)
(* C3, amended: when master/x and tenants/one/x are regular files with the *)
(* same contents, the body is stored once and shared: both entries point   *)
(* to the same partition and body_id, that partition is used by both       *)
(* principals, and when nothing else is packed there is one partition of   *)
(* one body.                                                               *)
(***************************************************************************)
C3_IdenticalBodiesShared ==
    SameContents =>
        /\ partitioned.files[""][<<"x">>].partition_id
              = partitioned.files["one"][<<"x">>].partition_id
        /\ partitioned.files[""][<<"x">>].body_id
              = partitioned.files["one"][<<"x">>].body_id
        /\ partitioned.files[""][<<"x">>].partition_id
              \in partitioned.used_partitions[""] \cap partitioned.used_partitions["one"]
        /\ DOMAIN tree = {MasterX, OneX} =>
              /\ Len(partitioned.partitions) = 1
              /\ Len(partitioned.partitions[1]) = 1

\* only master/x and tenants/one/x are packed, with the same contents
C3_Witness == SameContents /\ DOMAIN tree = {MasterX, OneX}

(***************************************************************************)
(* C4, as claimed: packing fails for every relative symbolic link under a  *)
(* principal root whose target, resolved piece by piece from the directory *)
(* that contains the link, pops above the principal root with a "..".      *)
(***************************************************************************)
RECURSIVE PopsAboveRoot(_, _)
PopsAboveRoot(dir, parts) ==
    IF parts = <<>> THEN FALSE
    ELSE IF Head(parts) = "." THEN PopsAboveRoot(dir, Tail(parts))
    ELSE IF Head(parts) = ".."
         THEN dir = <<>> \/ PopsAboveRoot(SubSeq(dir, 1, Len(dir) - 1), Tail(parts))
    ELSE PopsAboveRoot(Append(dir, Head(parts)), Tail(parts))

\* the directory that contains f, below the root of P
DirBelow(f, P) == SubSeq(Below(f, P), 1, Len(Below(f, P)) - 1)

EscapingLinks ==
    {f \in DOMAIN tree :
        /\ tree[f].kind = "symlink"
        /\ \E P \in SourcePrincipals :
              IsUnder(f, P) /\ PopsAboveRoot(DirBelow(f, P), split(tree[f].data))}

C4_EscapingLinkFails ==
    phase = "packed" /\ EscapingLinks # {} => error = "OUT_OF_TREE"

(***************************************************************************)
(* C8: the number of partitions is the number of distinct visibility sets  *)
(* of the bodies the files stand for, and two bodies are in the same       *)
(* partition iff their visibility sets are equal.                          *)
(***************************************************************************)
C8_PartitionsAreVisibilitySets ==
    Packed =>
        /\ Len(partitioned.partitions)
              = Cardinality({Visibility(b) : b \in AllSourceBodies})
        /\ \A b1, b2 \in AllSourceBodies :
              (\E i \in PartitionIds : b1 \in BodiesOf(i) /\ b2 \in BodiesOf(i))
                  <=> Visibility(b1) = Visibility(b2)

\* two partitions, one of them with two bodies
C8_Witness ==
    /\ Packed
    /\ Len(partitioned.partitions) >= 2
    /\ \E i \in PartitionIds : Len(partitioned.partitions[i + 1]) >= 2

(***************************************************************************)
(* C9: collect_files gives two files the same body_id iff their bodies are *)
(* the same bytes; in the output of partition_files every body the files   *)
(* stand for is there exactly once, and the k bodies of one visibility set *)
(* make a partition of length k.                                           *)
(***************************************************************************)
Places(b) ==
    {<<i, j>> \in PartitionIds \X (1..MaxFiles + 1) :
        /\ j <= Len(partitioned.partitions[i + 1])
        /\ partitioned.partitions[i + 1][j] = b}

C9_StoredOnce ==
    /\ phase = "packed" /\ collection.error = "" =>
          \A f, g \in DOMAIN tree :
              collection.files[f].body_id = collection.files[g].body_id
                  <=> tree[f].data = tree[g].data
    /\ Packed =>
          /\ \A b \in AllSourceBodies : Cardinality(Places(b)) = 1
          /\ \A i \in PartitionIds : BodiesOf(i) \subseteq AllSourceBodies
          /\ \A b \in AllSourceBodies :
                \E i \in PartitionIds :
                    /\ b \in BodiesOf(i)
                    /\ Len(partitioned.partitions[i + 1])
                          = Cardinality({c \in AllSourceBodies : Visibility(c) = Visibility(b)})

\* three files of one principal with two different contents between them
C9_Witness ==
    /\ Packed
    /\ Cardinality(DOMAIN tree) = 3
    /\ Cardinality(AllSourceBodies) = 2
    /\ Len(partitioned.partitions) = 1
    /\ Len(partitioned.partitions[1]) = 2

(***************************************************************************)
(* C10: every file entry partition_files emits points into a partition     *)
(* that exists, at a body that exists, and that body is the body of the    *)
(* source file (for a link whose target was absolute, the rewritten        *)
(* target); its metadata is that of the source file.                       *)
(***************************************************************************)
C10_EntriesResolve ==
    Packed =>
        /\ \A P \in SourcePrincipals :
              DOMAIN partitioned.files[P] = {Below(f, P) : f \in OwnFiles(P)}
        /\ \A P \in DOMAIN partitioned.files :
              \A n \in DOMAIN partitioned.files[P] :
                  LET item == partitioned.files[P][n]
                      f == PrincipalRoot(P) \o n
                  IN  /\ f \in DOMAIN tree
                      /\ item.partition_id \in PartitionIds
                      /\ item.body_id >= 0
                      /\ item.body_id < Len(partitioned.partitions[item.partition_id + 1])
                      /\ partitioned.partitions[item.partition_id + 1][item.body_id + 1]
                            = SourceBody(f, P)
                      /\ item.metadata = collection.files[f].metadata
                      /\ item.metadata.mtime_ns = tree[f].mtime_ns

\* a link whose target was absolute is packed beside another partition, and its
\* entry no longer carries the body_id collect_files gave it
C10_Witness ==
    /\ Packed
    /\ Len(partitioned.partitions) >= 2
    /\ \E P \in DOMAIN partitioned.files :
          \E n \in DOMAIN partitioned.files[P] :
              /\ tree[PrincipalRoot(P) \o n].kind = "symlink_abs"
              /\ partitioned.files[P][n].body_id
                    # collection.files[PrincipalRoot(P) \o n].body_id

(***************************************************************************)
(* C5: over the packs of one stored blob, each starting from the           *)
(* CryptoBlob loaded from what the pack before stored, the key_ids of the  *)
(* issued keypairs are strictly increasing, so no key_id is assigned to    *)
(* two keypairs and a tenant that was forgotten and comes back gets a      *)
(* key_id above every key_id issued before.                                *)
(***************************************************************************)
C5_KeyIdNeverReused ==
    /\ \A i, j \in 1..Len(issued) :
          i < j => /\ issued[i].key_id < issued[j].key_id
                   /\ issued[i].writer_key # issued[j].writer_key
                   /\ issued[i].reader_key # issued[j].reader_key
    /\ \A i \in 1..Len(issued) :
          stored # NoBlob /\ issued[i].key_id >= 1 /\ issued[i].key_id <= stored.max_id

\* a tenant was issued a keypair, forgotten, and issued another
C5_Witness ==
    \E i, j \in 1..Len(issued) :
        /\ i < j
        /\ issued[i].tenant_name = issued[j].tenant_name
        /\ issued[i].key_id + 1 < issued[j].key_id

(***************************************************************************)
(* C6: a pack leaves max_id at the value the blob it was given carried (0  *)
(* with no blob) plus the number of tenants with files that were not among *)
(* existing_tenants_keys; the stored blob carries that value and loading   *)
(* it gives it back, so max_id never decreases from pack to pack.          *)
(***************************************************************************)
ExistingNames == {last.existing[j].tenant_name : j \in 1..Len(last.existing)}

NewTenants == (SourcePrincipals \ {""}) \ ExistingNames

C6_MaxIdCounts ==
    last.outcome = "written" =>
        /\ last.before.max_id = IF last.given = NoBlob THEN 0 ELSE last.given.max_id
        /\ cb.max_id = last.before.max_id + Cardinality(NewTenants)
        /\ stored.max_id = cb.max_id
        /\ load_from_blob(stored).max_id = cb.max_id
        /\ last.given # NoBlob => stored.max_id >= last.given.max_id

\* a pack of a stored blob that keeps one tenant and issues a key to another
C6_Witness ==
    /\ last.outcome = "written"
    /\ last.given # NoBlob
    /\ last.given.max_id > 0
    /\ NewTenants # {}
    /\ (SourcePrincipals \ {""}) \cap ExistingNames # {}

(***************************************************************************)
(* C7: a collect in which tenant T has files and T is among                *)
(* existing_tenants_keys records for T the key_id, writer_key and          *)
(* reader_key it was given, stores T's manifest under xtenants[key_id]     *)
(* sealed with that writer_key, and does not count T in max_id; so when an *)
(* xmodify run keeps T's directory and keep-file, the reader key issued    *)
(* before opens T's manifest in the blob stored after.                     *)
(***************************************************************************)
Recorded == {MasterManifest.tenants_keys[i] : i \in 1..Len(MasterManifest.tenants_keys)}

GivenKeys ==
    IF last.given = NoBlob THEN {}
    ELSE LET md == unseal_master(load_from_blob(last.given), MasterKey).data
         IN  {md.tenants_keys[i] : i \in 1..Len(md.tenants_keys)}

C7_IdentityRetained ==
    last.outcome = "written" =>
        /\ \A j \in 1..Len(last.existing) :
              LET e == last.existing[j]
              IN  e.tenant_name \in SourcePrincipals =>
                      /\ e \in Recorded
                      /\ \A r \in Recorded : r.tenant_name = e.tenant_name => r = e
                      /\ e.key_id \in DOMAIN cb.xtenants
                      /\ cb.xtenants[e.key_id]
                            = asymm_encrypt(cb.xtenants[e.key_id].plain, e.writer_key)
                      /\ open_tenant(cb, e.key_id, e.reader_key).ok
                      /\ open_tenant(cb, e.key_id, e.reader_key).data.files
                            = files_data(partitioned.files)[e.tenant_name]
        /\ cb.max_id - last.before.max_id = Cardinality(NewTenants)
        /\ \A e \in GivenKeys :
              /\ keep_path(e.tenant_name) \in DOMAIN last.work
              /\ \E f \in DOMAIN last.work : IsUnder(f, e.tenant_name)
              => /\ open_tenant(load_from_blob(stored), e.key_id, e.reader_key).ok
                 /\ open_tenant(load_from_blob(stored), e.key_id, e.reader_key).data.files
                       = files_data(partitioned.files)[e.tenant_name]

\* a tenant issued a key two packs ago is kept twice, beside a tenant that is new
C7_Witness ==
    /\ last.outcome = "written"
    /\ NewTenants # {}
    /\ \E e \in GivenKeys :
          /\ keep_path(e.tenant_name) \in DOMAIN last.work
          /\ e.tenant_name \in SourcePrincipals
          /\ e.key_id < last.given.max_id

(***************************************************************************)
(* C11: a directory that was packed, and whose master manifest is then     *)
(* unsealed and written out into an empty destination, comes back with the *)
(* same paths, for every regular file the same bytes and mtime_ns, and for *)
(* every link a link of the same kind with the same target (an absolute    *)
(* target at the same place below the destination as it was below the      *)
(* source).                                                                *)
(***************************************************************************)
C11_MasterRoundTrip ==
    dest.op = "master" =>
        /\ dest.error = ""
        /\ DOMAIN dest.tree = DOMAIN tree
        /\ \A p \in DOMAIN tree :
              /\ dest.tree[p].kind = tree[p].kind
              /\ dest.tree[p].data = tree[p].data
              /\ tree[p].kind = "file" => dest.tree[p].mtime_ns = tree[p].mtime_ns

\* a directory of master and a tenant with a file, a link and an absolute link
C11_Witness ==
    /\ dest.op = "master"
    /\ Cardinality(SourcePrincipals) = 2
    /\ \E p, q, r \in DOMAIN dest.tree :
          /\ dest.tree[p].kind = "file"
          /\ dest.tree[q].kind = "symlink"
          /\ dest.tree[r].kind = "symlink_abs"

(***************************************************************************)
(* C12: writeout_tenant with the key_id and the reader key the master      *)
(* manifest records for tenant T writes exactly the files of the source    *)
(* under tenants/T/, at their paths below tenants/T/, with the same bytes  *)
(* and mtime_ns, and nothing of master or of another tenant.               *)
(***************************************************************************)
DestTenants ==
    {e.tenant_name : e \in {k \in recorded_keys(cb, MasterKey) :
                               k.key_id = dest.key_id /\ k.reader_key = dest.tenant_key}}

C12_TenantSubtree ==
    dest.op = "tenant" =>
        \A T \in DestTenants :
            /\ T \in SourcePrincipals
            /\ dest.error = ""
            /\ DOMAIN dest.tree = {Below(f, T) : f \in OwnFiles(T)}
            /\ \A f \in OwnFiles(T) :
                  /\ dest.tree[Below(f, T)].kind = tree[f].kind
                  /\ dest.tree[Below(f, T)].data = SourceBody(f, T)
                  /\ tree[f].kind = "file" =>
                        dest.tree[Below(f, T)].mtime_ns = tree[f].mtime_ns

\* a tenant's files are written beside a master and another tenant that have others
C12_Witness ==
    /\ dest.op = "tenant"
    /\ DestTenants # {}
    /\ Cardinality(SourcePrincipals) = 3
    /\ \E p \in DOMAIN dest.tree : dest.tree[p].kind = "file"
    /\ \E f \in DOMAIN tree : \A p \in DOMAIN dest.tree : tree[f].data # dest.tree[p].data

(***************************************************************************)
(* C13: a tenant manifest opens only with the reader key of the keypair it *)
(* was sealed for.  Reading the stored blob with the key_id of a tenant    *)
(* and a reader key that the master manifest does not record for that      *)
(* key_id - the key of another tenant, or a key the same tenant held       *)
(* before it was forgotten and given a new keypair - ends with a crypto    *)
(* error and writes nothing.                                               *)
(***************************************************************************)
\* the TenantKeys of the stored blob's master manifest for the key_id that was read
ReadFor == {k \in recorded_keys(load_from_blob(stored), MasterKey) : k.key_id = dest.key_id}

C13_OtherKeyFails ==
    (dest.op = "tenant" /\ \A k \in ReadFor : k.reader_key # dest.tenant_key) =>
        /\ dest.error = "CryptoError"
        /\ dest.tree = <<>>

\* the tenant's manifest is read with the reader key the tenant had before it was
\* forgotten and came back
C13_Witness ==
    /\ dest.op = "tenant"
    /\ dest.error = "CryptoError"
    /\ \E k \in ReadFor : \E i \in DOMAIN issued :
          /\ issued[i].reader_key = dest.tenant_key
          /\ issued[i].tenant_name = k.tenant_name
          /\ issued[i].key_id # k.key_id

\* the tenant's manifest is read with the reader key of another tenant of the blob
C13_OtherTenant ==
    /\ dest.op = "tenant"
    /\ dest.error = "CryptoError"
    /\ \E k \in ReadFor :
          \E o \in recorded_keys(load_from_blob(stored), MasterKey) :
              o.reader_key = dest.tenant_key /\ o.tenant_name # k.tenant_name

(***************************************************************************)
(* C14: a version-1 CryptoBlob that is dumped and loaded again comes back  *)
(* with the same version, max_id, xpartitions (in order), xmaster and      *)
(* xtenants (with integer keys), and the dumped bytes begin with the       *)
(* version.                                                                *)
(***************************************************************************)
C14_DumpLoadRoundTrip ==
    /\ phase \in {"dumped", "loaded"} => stored.header = cb.version
    /\ phase = "loaded" =>
          /\ cb2.version = cb.version
          /\ cb2.max_id = cb.max_id
          /\ cb2.xpartitions = cb.xpartitions
          /\ cb2.xmaster = cb.xmaster
          /\ DOMAIN cb2.xtenants = DOMAIN cb.xtenants
          /\ \A k \in DOMAIN cb.xtenants : cb2.xtenants[k] = cb.xtenants[k]

\* the blob of test_dump_load_blob, with a key_id of two digits
C14_Witness ==
    /\ phase = "loaded"
    /\ cb2.max_id = 11
    /\ Len(cb2.xpartitions) = 2
    /\ cb2.xpartitions[1] # cb2.xpartitions[2]
    /\ DOMAIN cb2.xtenants = {2, 10}
    /\ cb2.xtenants[2] # cb2.xtenants[10]

(***************************************************************************)
(* C15: a storage backend's modify reads the object (None when there is    *)
(* none), calls the modifier once with it, and then does nothing if the    *)
(* modifier returned what it was given, deletes the object if it returned  *)
(* None, and puts the returned bytes in the object's place otherwise.      *)
(* Stated for the file backend and for the S3 backend without _delay_put,  *)
(* after every modify call of a run.                                       *)
(***************************************************************************)
Direct == storage.backend = "file" \/ (storage.backend = "s3" /\ storage.delay_put = 0)

C15_ModifyContract ==
    (modified.op # "none" /\ run.pc = "idle" /\ Direct) =>
        /\ modified.calls = 1
        /\ modified.data = modified.given
        /\ modified.data = modified.was
        /\ modified.outcome = "returned" =>
              IF modified.new_data = modified.data
              THEN modified.action = "none" /\ object = modified.given
              ELSE IF modified.new_data = None
              THEN modified.action = "delete" /\ object = None
              ELSE modified.action = "put" /\ object = modified.new_data

\* on either backend a third modify call has deleted what the calls before it wrote
C15_Witness ==
    /\ Direct
    /\ run.pc = "idle"
    /\ modified.n = 3
    /\ modified.given # None
    /\ modified.given[1] # <<>>
    /\ modified.action = "delete"
    /\ object = None

(***************************************************************************)
(* C17: on the S3 backend with max_lag > 0, if a write is seen by          *)
(* downloads only after a delay shorter than max_lag seconds, the modifier *)
(* of a modify call is given what the modify call before it left (its      *)
(* bytes, or None after its deletion), never the object of before.         *)
(***************************************************************************)
C17_NeverStale ==
    (/\ storage.backend = "s3"
     /\ storage.max_lag > 0
     /\ storage.delay_put < storage.max_lag * TicksPerSecond
     /\ modified.op = "s3") =>
        modified.data = modified.was

(***************************************************************************)
(* C19: if the command of modify exits with a non-zero code the stored     *)
(* blob is left as it was and the process exits with that code; if it      *)
(* exits with 0, what it left in the file blob (None if the file is gone)  *)
(* is what the modifier returns and the backend writes back.               *)
(***************************************************************************)
C19_FailedCommandKeepsBlob ==
    modified.op # "none" =>
        IF modified.cmd.rc # 0
        THEN /\ modified.code = modified.cmd.rc
             /\ modified.action = "none"
             /\ latest = modified.was
             /\ storage.backend = "file" => object = modified.given
        ELSE /\ modified.code = 0
             /\ modified.new_data = run_command(modified.cmd, modified.data)
             /\ latest = IF modified.new_data = modified.data THEN modified.was
                         ELSE modified.new_data
             /\ storage.backend = "file" => object = modified.new_data

\* a command that appended to the file blob and then failed, on a blob that exists
C19_Witness ==
    /\ storage.backend = "file"
    /\ modified.cmd.rc = 3
    /\ modified.cmd.does = "append"
    /\ modified.given # None
    /\ object = modified.given
    /\ modified.code = 3

(***************************************************************************)
(* C16: when all the concurrent modify invocations on a blob name one same *)
(* lock, no two of them are between reading the blob and having written it *)
(* at the same time, each modifier is given the blob as the holder before  *)
(* it left it, and the blob holds the line of every invocation that got    *)
(* the lock and finished: no update is lost.                               *)
(***************************************************************************)
SameLock == \E loc \in {"a", "b"} : \A p \in DOMAIN procs :
                \E i \in DOMAIN procs[p].locks : procs[p].locks[i] = loc

InSection == {p \in DOMAIN procs : procs[p].pc \in {"modifier", "written"}}

Lines(obj) == IF obj = None THEN {} ELSE {obj[1][i] : i \in 1..Len(obj[1])}

C16_NoLostUpdate ==
    (procs # <<>> /\ SameLock) =>
        /\ Cardinality(InSection) <= 1
        /\ \A p \in DOMAIN procs : procs[p].pc = "modifier" => procs[p].data = object
        /\ \A p \in DOMAIN procs :
              procs[p].pc \in {"written", "done"} => str(p) \in Lines(object)

\* three invocations with the same lock have all finished, one of them after a
\* lock attempt that timed out, and the blob holds the three lines
C16_Witness ==
    /\ procs # <<>>
    /\ SameLock
    /\ \A p \in DOMAIN procs : procs[p].pc = "done"
    /\ \E p \in DOMAIN procs : procs[p].waited
    /\ Cardinality(Lines(object)) = NProcs

(***************************************************************************)
(* C18: while the file lock of a name is held, an attempt to take the lock *)
(* of the same name does not enter it and ends with TimeoutError; so a     *)
(* lock name has at most one holder at any time.  Locks of different names *)
(* are held together.                                                      *)
(***************************************************************************)
\* the invocations that entered the lock of a name and have not left their ExitStack
Entered(loc) ==
    {p \in DOMAIN procs : \E i \in 1..procs[p].got : procs[p].locks[i] = loc}

C18_OneHolder ==
    /\ \A loc \in {"a", "b"} : Cardinality(Entered(loc)) <= 1
    /\ \A p \in DOMAIN procs :
          /\ procs[p].tried.result = "TimeoutError" => procs[p].tried.held
          /\ procs[p].tried.result = "entered" => ~procs[p].tried.held

\* two invocations hold the locks of two names while a third has got TimeoutError
C18_Witness ==
    \E p, q, r \in DOMAIN procs :
        /\ Entered("a") = {p}
        /\ Entered("b") = {q}
        /\ p # q
        /\ procs[r].tried.result = "TimeoutError"
        /\ procs[r].pc = "locking"

(***************************************************************************)
(* C20: without --allow-errors, read exits with code 1 at the first blob   *)
(* whose load raises a backend error, and the command is not started; if   *)
(* every blob was loaded, or with --allow-errors, the command runs and its *)
(* exit code is the exit code of the process.                              *)
(***************************************************************************)
\* the blobs that cannot be loaded: no such backend, or no file at the locator
Failing(blobs) ==
    {i \in DOMAIN blobs : blobs[i].backend # "file" \/ blobs[i].object = None}

C20_ReadRunsCommand ==
    reading.done =>
        IF Failing(reading.blobs) # {} /\ ~reading.allow_errors
        THEN /\ reading.exit_code = 1
             /\ ~reading.ran
             /\ reading.written =
                   {i \in DOMAIN reading.blobs : \A j \in Failing(reading.blobs) : i < j}
        ELSE /\ reading.ran
             /\ reading.exit_code = reading.rc
             /\ reading.written = DOMAIN reading.blobs \ Failing(reading.blobs)

\* with --allow-errors the command ran beside a blob that was loaded and one that
\* was not, and its exit code 2 is the exit code of read
C20_Witness ==
    /\ reading.done
    /\ reading.allow_errors
    /\ reading.written # {}
    /\ Failing(reading.blobs) # {}
    /\ \E i \in reading.written : \E j \in Failing(reading.blobs) : j < i
    /\ reading.ran
    /\ reading.exit_code = 2

\* without --allow-errors read stopped at the second blob of three
C20_StoppedAtFirst ==
    /\ reading.done
    /\ ~reading.allow_errors
    /\ Len(reading.blobs) = 3
    /\ reading.written = {1}
    /\ ~reading.ran
    /\ reading.exit_code = 1

(***************************************************************************)
(* C21: after the command of xmodify has exited with 0, the stored blob is *)
(* deleted if the directory master is gone from the working directory (and *)
(* nothing is made if there was no blob); otherwise the working directory  *)
(* is packed with the same master key and the result is the stored blob:   *)
(* it opens with the master key and holds the working directory as the     *)
(* command left it.  A working directory that collect rejects leaves the   *)
(* stored blob as it was.                                                  *)
(***************************************************************************)
\* the working directory that the master manifest of the stored blob gives back
StoredTree == writeout_master(load_from_blob(stored),
                              unseal_master(load_from_blob(stored), MasterKey).data,
                              WriteTime)

Forgotten ==
    {e \in GivenKeys :
        \/ keep_path(e.tenant_name) \notin DOMAIN last.work
        \/ ~\E f \in DOMAIN last.work : IsUnder(f, e.tenant_name)}

StoredRecorded == recorded_keys(load_from_blob(stored), MasterKey)

C22_ForgottenKeysGone ==
    /\ (phase = "xmodify" /\ last.outcome = "written") =>
          \A e \in Forgotten :
              /\ \A r \in StoredRecorded :
                    /\ r.key_id # e.key_id
                    /\ r.reader_key # e.reader_key
                    /\ r.writer_key # e.writer_key
              /\ e.key_id \notin DOMAIN load_from_blob(stored).xtenants
              /\ e.tenant_name \in SourcePrincipals =>
                    \E r \in StoredRecorded :
                        /\ r.tenant_name = e.tenant_name
                        /\ r.key_id > last.given.max_id
    /\ (phase = "xmodify" /\ stored # NoBlob) =>
          \A i \in 1..Len(issued) :
              issued[i] \notin StoredRecorded =>
                  /\ issued[i].key_id \notin DOMAIN load_from_blob(stored).xtenants
                  /\ \A r \in StoredRecorded :
                        r.tenant_name = issued[i].tenant_name =>
                            /\ r.key_id > issued[i].key_id
                            /\ ~open_tenant(load_from_blob(stored), r.key_id,
                                            issued[i].reader_key).ok

\* the command removed the keep-file of a tenant and left its files: the tenant has
\* a new keypair in the blob written
C22_Witness ==
    /\ phase = "xmodify"
    /\ last.outcome = "written"
    /\ \E e \in Forgotten :
          /\ keep_path(e.tenant_name) \notin DOMAIN last.work
          /\ e.tenant_name \in SourcePrincipals
          /\ \E r \in StoredRecorded : r.tenant_name = e.tenant_name /\ r.key_id > e.key_id

\* the command removed the files of a tenant and left its keep-file
C22_DirectoryRemoved ==
    /\ phase = "xmodify"
    /\ last.outcome = "written"
    /\ \E e \in Forgotten :
          /\ keep_path(e.tenant_name) \in DOMAIN last.work
          /\ \A r \in StoredRecorded : r.tenant_name # e.tenant_name

\* a tenant whose files were removed with its keep-file left has files again
C22_CameBack ==
    /\ phase = "xmodify"
    /\ last.outcome = "written"
    /\ \E i \in 1..Len(issued) : \E r \in StoredRecorded :
          /\ r.tenant_name = issued[i].tenant_name
          /\ r.key_id > issued[i].key_id
          /\ \A e \in GivenKeys : e.tenant_name # r.tenant_name

(***************************************************************************)
(* C23.  fail_on_unused raises UnsupportedOptionsError iff at least one    *)
(* option key supplied by the caller was never requested through get or    *)
(* mapped_update before the call; and a storage load or modify given an    *)
(* option the backend does not consume fails with this error and does not  *)
(* read or write the stored object.                                        *)
(***************************************************************************)
\* the supplied keys that nobody requested of the object
NeverRequested == {k \in DOMAIN options.opts : k \notin options.asked}

\* the supplied keys that the backend call did not consume
NotConsumed == DOMAIN options.opts \ options.used

\* the first sentence: fail_on_unused called directly
C23_FailOnUnusedIff ==
    (options.op = "options" /\ options.done) =>
        (options.error = "UnsupportedOptionsError" <=> NeverRequested # {})

\* the last part: no call with an option left over reads or writes the object
C23_ObjectUntouched ==
    (options.op \in {"load", "modify"} /\ options.done /\ NotConsumed # {}) =>
        (options.error # "" /\ ~options.object_touched)

\* the claim as stated
C23_UnusedOptionFails ==
    /\ C23_FailOnUnusedIff
    /\ (options.op \in {"load", "modify"} /\ options.done /\ NotConsumed # {}) =>
           (options.error = "UnsupportedOptionsError" /\ ~options.object_touched)

\* a backend call that was given an option it does not consume has ended
C23_Witness ==
    /\ options.op = "modify" /\ options.backend = "s3" /\ options.done
    /\ "x" \in NotConsumed

\* the side table was read by a call that then rejected its options
C23_TableReadFirst ==
    /\ options.done /\ options.error = "UnsupportedOptionsError" /\ options.table_read

(***************************************************************************)
(* C24.  For every symlink with SYMLINK_ABS set, packing fails unless the  *)
(* stored target (relative to the source root) begins component-wise with  *)
(* the prefix of the principal that owns the link.  On success the body    *)
(* placed in the partitions is the target with the prefix removed, and the *)
(* unrewritten target is in no partition on account of this link.          *)
(***************************************************************************)
\* the links of principal P whose target was absolute
AbsLinks(P) == {f \in OwnFiles(P) : tree[f].kind = "symlink_abs"}

\* the target of f begins, piece by piece, with the root of P
BeginsWithRoot(f, P) ==
    /\ Len(tree[f].data) >= Len(PrincipalRoot(P))
    /\ SubSeq(tree[f].data, 1, Len(PrincipalRoot(P))) = PrincipalRoot(P)

\* the bodies that are in the partitions on account of the files other than f
BodiesButFor(f) ==
    UNION {{SourceBody(g, P) : g \in OwnFiles(P) \ {f}} : P \in SourcePrincipals}

C24_AbsoluteLinkInsideOwner ==
    /\ (phase = "packed" /\ \E P \in PrincipalNames :
                               \E f \in AbsLinks(P) : ~BeginsWithRoot(f, P))
           => error # ""
    /\ Packed =>
          \A P \in SourcePrincipals :
              \A f \in AbsLinks(P) :
                  LET item == partitioned.files[P][Below(f, P)]
                  IN  /\ BeginsWithRoot(f, P)
                      /\ partitioned.partitions[item.partition_id + 1][item.body_id + 1]
                            = SubSeq(tree[f].data, Len(PrincipalRoot(P)) + 1,
                                     Len(tree[f].data))
                      /\ tree[f].data \notin BodiesButFor(f) =>
                            \A i \in PartitionIds : tree[f].data \notin BodiesOf(i)

\* a tenant's link to an absolute target inside the tenant is packed, rewritten
C24_Witness ==
    /\ Packed
    /\ \E f \in AbsLinks("one") :
          /\ tree[f].data = <<"tenants", "one", "x">>
          /\ \E i \in PartitionIds : <<"x">> \in BodiesOf(i)

\* packing refused a tree whose only entry is a tenant's link into another tenant
C24_Refused ==
    /\ phase = "packed" /\ error # ""
    /\ DOMAIN tree = {<<"tenants", "one", "link">>}
    /\ tree[<<"tenants", "one", "link">>] =
           AbsLink(<<"tenants", "one", "link">>, <<"tenants", "two", "x">>)

(***************************************************************************)
(* C25.  modify_blob_with_locks calls the storage backend's modify (and so *)
(* the modifier) only after every lock in locks has been acquired, in the  *)
(* order given, and all of them stay held until modify has returned or     *)
(* raised.  If a lock acquisition times out or fails, or a backend name is *)
(* unknown, the modifier is never invoked and the stored blob is untouched.*)
(***************************************************************************)
\* the locks of the invocation in the order they were given
AllLocks == [j \in 1..Len(call.locks) |-> lock_id(call.locks[j])]

HeldInOrder ==
    /\ Len(call.stack) <= Len(call.locks)
    /\ \A j \in 1..Len(call.stack) : call.stack[j] = AllLocks[j]

C25_ModifyUnderAllLocks ==
    /\ (call.pc # "none" /\ call.pc # "unwinding" /\ call.pc # "ended") => HeldInOrder
    /\ (call.modify_calls > 0 /\ ~call.modify_over) =>
           /\ call.stack = AllLocks
           /\ \A j \in 1..Len(call.stack) : call.stack[j] \notin elsewhere
    /\ call.modifier_calls > 0 => call.modify_calls > 0
    /\ call.outcome \in {"timed out", "lock error", "unknown backend"} =>
           /\ call.modify_calls = 0
           /\ call.modifier_calls = 0
           /\ object = None

\* the modifier runs while the invocation holds its two locks
C25_Witness ==
    /\ call.pc = "modifier"
    /\ Len(call.stack) = 2
    /\ call.stack[1] # call.stack[2]

\* the second lock timed out and the invocation ended without calling modify
C25_LaterLockTimedOut ==
    /\ call.pc = "ended" /\ call.outcome = "timed out" /\ call.i = 2
    /\ call.modify_calls = 0

(***************************************************************************)
(* C26.  When modify_blob_with_locks ends in any way (normal return, lock  *)
(* timeout on a later lock, backend error, the modifier raising or calling *)
(* sys.exit), every lock it had acquired has been released, in reverse     *)
(* order of acquisition; no lock remains held.                             *)
(***************************************************************************)
Reversed(q) == [j \in 1..Len(q) |-> q[Len(q) + 1 - j]]

\* how many of its locks the invocation had acquired when it ended as it did
AcquiredAtEnd ==
    IF call.outcome \in {"returned", "raised", "exit", "backend error"}
    THEN Len(call.locks)
    ELSE IF call.outcome \in {"timed out", "lock error"} THEN call.i - 1
    ELSE 0

C26_AllReleased ==
    /\ call.pc = "ended" =>
           /\ call.stack = <<>>
           /\ call.released = Reversed(SubSeq(AllLocks, 1, AcquiredAtEnd))
    /\ call.pc = "unwinding" =>
           call.stack \o Reversed(call.released) = SubSeq(AllLocks, 1, AcquiredAtEnd)
    /\ (call.pc # "unwinding" /\ call.pc # "ended") => call.released = <<>>

\* the modifier called sys.exit under two locks and both have been released
C26_Witness ==
    /\ call.pc = "ended" /\ call.outcome = "exit"
    /\ Len(call.released) = 2
    /\ call.released[1] # call.released[2]

\* a timeout on the second lock released the first
C26_TimedOutReleased ==
    /\ call.pc = "ended" /\ call.outcome = "timed out"
    /\ Len(call.released) = 1

(***************************************************************************)
(* C27.  For each lock the acquisition loop makes at least one attempt     *)
(* whatever the lock's timeout option (the default 0 too), passes each     *)
(* attempt a timeout that is never negative and never larger than the time *)
(* that remains to the deadline (none, once the deadline has passed),      *)
(* tries again after every TimeoutError while the deadline has not passed, *)
(* and raises "timed out" only after at least one attempt failed and the   *)
(* deadline has passed.  Provided make_lock returns, the loop eventually   *)
(* ends with the lock acquired or with an error.                           *)
(***************************************************************************)
InLoop == call.pc \in {"while", "waiting"}

C27_AttemptsInvariant ==
    /\ call.pc = "waiting" =>
           /\ call.attempt >= 1
           /\ call.timeout >= 0
           /\ call.timeout <= Max(0, call.remaining)
           /\ call.until <= Max(clock, call.deadline)
    /\ \A j \in 1..Len(call.stack) : call.i > j \/ (call.i = j /\ call.attempt >= 1)
    /\ call.outcome = "timed out" =>
           /\ call.attempt >= 1
           /\ call.failed >= 1
           /\ call.remaining < 0

\* a pass of the while loop made before the deadline has passed makes an attempt
C27_Retries ==
    (call.pc = "while" /\ call'.pc # "while" /\ clock <= call.deadline) =>
        (call'.pc = "waiting" \/ call'.outcome = "lock error")

\* a pass of the while loop that does not find the deadline passed after a failed
\* attempt makes an attempt, the first pass always
C27_FirstAttempt ==
    (call.pc = "while" /\ call'.pc # "while" /\ call.attempt = 0) =>
        (call'.pc = "waiting" \/ call'.outcome = "lock error")

C27_LoopEnds ==
    /\ []C27_AttemptsInvariant
    /\ [][C27_Retries /\ C27_FirstAttempt]_vars
    /\ \A k \in 1..2 : (InLoop /\ call.i = k) ~> (~InLoop \/ call.i # k)

\* a lock with the default timeout of 0 that was held elsewhere: one attempt with
\* timeout 0 was made, it failed, the deadline passed and the loop timed out
C27_Witness ==
    /\ call.pc = "ended" /\ call.outcome = "timed out"
    /\ call.locks[call.i].timeout = 0
    /\ call.failed >= 1

\* the first attempt of a loop is made after the deadline has passed, with timeout 0
C27_LateFirstAttempt ==
    /\ call.pc = "waiting" /\ call.attempt = 1 /\ call.remaining < 0 /\ call.timeout = 0

\* an attempt after the first is given what remains to the deadline
C27_Retried ==
    /\ call.pc = "waiting" /\ call.attempt > 1 /\ call.timeout = call.remaining
    /\ call.timeout > 0

(***************************************************************************)
(* C28.  S3 modify with max_lag > 0.  When the modifier's result differs   *)
(* from its input, the digest of the new data is recorded in the side      *)
(* table before the object is written or deleted.  On the read side, when  *)
(* an unexpired digest is recorded, the object is downloaded again (at     *)
(* most max_lag downloads) until a download's digest equals the recorded   *)
(* one, after which no further download happens and the modifier is        *)
(* invoked with exactly that download's data.                              *)
(***************************************************************************)
Lagging == storage.backend = "s3" /\ storage.max_lag > 0

\* the side table holds the digest of d
RecordedDigest(d) == dynamo # None /\ dynamo[1].value = digest(d)

\* the downloads the call in progress has made
Downloads ==
    IF run.pc = "download" THEN run.attempt
    ELSE IF digest(run.data) = run.expected_digest /\ run.attempt < run.attempts
    THEN run.attempt + 1
    ELSE run.attempt

C28_DownloadsInvariant ==
    (Lagging /\ run.pc \in {"download", "modifier", "action"}) =>
        /\ run.attempts = IF run.expected_digest = None THEN 1 ELSE storage.max_lag
        /\ Downloads <= run.attempts
        /\ (run.pc = "download" /\ run.attempt > 0) =>
               digest(run.data) # run.expected_digest
        /\ (run.pc # "download" /\ Downloads < run.attempts) =>
               digest(run.data) = run.expected_digest
        /\ run.pc = "action" =>
               RecordedDigest(cmd_modifier(run.data, run.cmd).result)

\* a call that acts on the object does so with the digest of the new data recorded
C28_RecordedFirst ==
    (Lagging /\ modified'.n # modified.n /\ modified'.action # "none") =>
        /\ RecordedDigest(modified'.new_data)
        /\ dynamo' = dynamo

\* a download whose digest is the recorded one is the last one, and its data is what
\* the modifier is invoked with
C28_MatchEndsLoop ==
    /\ (Lagging /\ run.pc = "download" /\ digest(object) = run.expected_digest) =>
           (run' = run \/ (run'.pc = "modifier" /\ run'.data = object
                           /\ run'.attempt = run.attempt))
    /\ (Lagging /\ run.pc = "modifier" /\ modified'.n # modified.n) =>
           modified'.data = run.data
    /\ (Lagging /\ run.pc = "action" /\ modified'.n # modified.n) =>
           modified'.data = run.data

C28_DigestBeforeWrite ==
    /\ []C28_DownloadsInvariant
    /\ [][C28_RecordedFirst /\ C28_MatchEndsLoop]_vars

\* the second of max_lag = 2 downloads matched the recorded digest, the modifier
\* changed the data, and the new digest is recorded while the object is still to be
\* written
C28_Witness ==
    /\ Lagging /\ run.pc = "action"
    /\ storage.max_lag = 2
    /\ run.attempt = 1
    /\ run.expected_digest # None
    /\ digest(run.data) = run.expected_digest
    /\ RecordedDigest(cmd_modifier(run.data, run.cmd).result)
    /\ digest(object) # dynamo[1].value

(***************************************************************************)
(* C29.  In every blob reachable by a sequence of xmodify runs from no     *)
(* blob, the key_ids recorded in the master manifest are pairwise          *)
(* distinct, each is between 1 and max_id, and no two tenants' manifests   *)
(* are stored under the same xtenants key.                                 *)
(***************************************************************************)
StoredBlob == load_from_blob(stored)

\* the tenants_keys list of the stored blob's master manifest; the blob is looked at
\* as the xmodify runs leave it, a read does not change it
StoredKeys == unseal_master(StoredBlob, MasterKey).data.tenants_keys

C29_KeyIdsDistinct ==
    (phase = "xmodify" /\ stored # NoBlob) =>
        /\ unseal_master(StoredBlob, MasterKey).ok
        /\ \A i, j \in 1..Len(StoredKeys) :
              i # j => /\ StoredKeys[i].key_id # StoredKeys[j].key_id
                       /\ StoredKeys[i].tenant_name # StoredKeys[j].tenant_name
        /\ \A i \in 1..Len(StoredKeys) :
              /\ StoredKeys[i].key_id >= 1
              /\ StoredKeys[i].key_id <= StoredBlob.max_id
              /\ StoredKeys[i].key_id \in DOMAIN StoredBlob.xtenants
              /\ open_tenant(StoredBlob, StoredKeys[i].key_id, StoredKeys[i].reader_key).ok
        /\ Cardinality(DOMAIN StoredBlob.xtenants) = Len(StoredKeys)

\* two tenants are recorded in a blob that has issued more key_ids than it records
C29_Witness ==
    /\ stored # NoBlob
    /\ Len(StoredKeys) = 2
    /\ StoredBlob.max_id > 2
    /\ \E i \in 1..2 : StoredKeys[i].key_id = StoredBlob.max_id

(***************************************************************************)
(* C30.  After every collect the set of keys of xtenants equals the set of *)
(* key_ids in the master manifest's tenants_keys, and both correspond      *)
(* exactly to the tenants with at least one file in the source tree; a     *)
(* tenant passed in existing_tenants_keys that has no file gets no         *)
(* manifest and is not recorded; master never gets an xtenants entry.      *)
(***************************************************************************)
\* the keys xmodify passed to collect as existing_tenants_keys
PassedKeys == {e \in GivenKeys : keep_path(e.tenant_name) \in DOMAIN last.work}

CollectedKeys == recorded_keys(cb, MasterKey)

C30_ManifestsMatchTenants ==
    (phase = "xmodify" /\ last.outcome = "written") =>
        /\ DOMAIN cb.xtenants = {r.key_id : r \in CollectedKeys}
        /\ {r.tenant_name : r \in CollectedKeys} = SourcePrincipals \ {""}
        /\ Cardinality(DOMAIN cb.xtenants) = Cardinality(SourcePrincipals \ {""})
        /\ \A r \in CollectedKeys :
              /\ r.tenant_name # ""
              /\ open_tenant(cb, r.key_id, r.reader_key).ok
              /\ DOMAIN open_tenant(cb, r.key_id, r.reader_key).data.files
                    = {Below(f, r.tenant_name) : f \in OwnFiles(r.tenant_name)}
        /\ \A e \in PassedKeys :
              e.tenant_name \notin SourcePrincipals =>
                  /\ e.key_id \notin DOMAIN cb.xtenants
                  /\ e \notin CollectedKeys

\* collect was passed the key of a tenant that has no file, beside a master and a
\* tenant that have files
C30_Witness ==
    /\ phase = "xmodify" /\ last.outcome = "written"
    /\ "" \in SourcePrincipals
    /\ DOMAIN cb.xtenants # {}
    /\ \E e \in PassedKeys : e.tenant_name \notin SourcePrincipals

====
